---- MODULE Spec2Model ----
(***************************************************************************)
(* Verification model of the Adventure cog (src/adventure.py) and its      *)
(* character sheet (src/charsheet.py).                                     *)
(*                                                                         *)
(* The cog runs as cooperative tasks on one event loop: a task runs        *)
(* without interruption from one "await" to the next, so every action      *)
(* below is the code between two suspension points of one coroutine.       *)
(* Time is counted in minutes (the encounter timers are 2, 3 and 5         *)
(* minutes, the sweep's TTL 6 minutes); delays shorter than a minute (the  *)
(* 5 second command cooldown, the 5 second sweep period) are separate      *)
(* expiry events.                                                          *)
(*                                                                         *)
(* Four specifications share the variables:                                *)
(*   Spec        the adventure command from the start request to the end   *)
(*               of the encounter, the sweep and the clock;                *)
(*   SpecSerial  the reactions on an open session, handled one at a time;  *)
(*   SpecReact   the same handlers interleaving at their awaits;           *)
(*   SpecLocks   the operations that load and persist character sheets     *)
(*               and the participant locks.                                *)
(***************************************************************************)
EXTENDS Integers, Sequences, FiniteSets, TLC

\* ---------------------------------------------------------------- bounds --
NumGuilds   == 2      \* groups (guild ids 1..NumGuilds)
NumStarters == 1      \* groups in which the adventure command is invoked
NumUsers    == 2      \* participants (user ids 1..NumUsers)
NumAdvTasks == 2      \* invocations of the adventure command
MaxInFlight == 2      \* invocations in progress at the same time
NumHandlers == 2      \* reaction events being handled at the same time
MaxRecords  == 22
MaxHistory  == 2
MaxItems    == 2
NumOps      == 2      \* operations on character sheets

Guilds   == 1..NumGuilds
Starters == {g \in Guilds : g <= NumStarters}
Users    == 1..NumUsers
AdvTasks == 1..NumAdvTasks
Handlers == 1..NumHandlers
Ops      == 1..NumOps

\* ------------------------------------------------------ program constants --
EntryCost     == 250  \* has_funds(user, 250)
CooldownTimer == 2    \* default_guild["cooldown_timer_manual"] = 120 seconds
TTL           == 6    \* delta = timedelta(minutes=6)
num_raids     == 20   \* AdventureResults(20)

ROSTERS == <<"fight", "magic", "talk", "pray", "run">>

\* The three monster classes of the monster table; _simple and _choice pick
\* the timer from the class: boss 60*5, miniboss 60*3, otherwise 60*2 seconds.
MONSTERS == {"normal", "miniboss", "boss"}
BaseHp(m) == IF m = "boss" THEN 30 ELSE IF m = "miniboss" THEN 20 ELSE 10
Timer(m) == IF m = "boss" THEN 5 ELSE IF m = "miniboss" THEN 3 ELSE 2
BaseDipl(m) == BaseHp(m) - 5

\* pdef and mdef are fractions: they are kept as multiples of 1/DefUnit, which
\* is exact for as many scalings by whole per cents as there are encounters
DefUnit == 100 ^ NumAdvTasks

\* self.MONSTERS as loaded from the data file: one template per class
LoadedMonsters ==
    [m \in MONSTERS |-> [hp |-> BaseHp(m), dipl |-> BaseDipl(m),
                         pdef |-> DefUnit, mdef |-> DefUnit]]

\* the outcomes of random.randrange taken: the lowest and the highest value
ROLLS == {"low", "high"}

\* Time stamps are kept as distances from the clock's reading, which is all
\* the code compares: age = now - start_time, left = adv_end - now,
\* since = now - cooldown.  A distance stops growing once every comparison
\* made with it has the same answer for ever.
AgeCap   == TTL + 2
SinceCap == CooldownTimer

VARIABLES
    sessions,         \* self._sessions: guild id -> session object (its id)
    heap,             \* the GameSession objects ever constructed, by object id
    last_raids,       \* self._adv_results._last_raids: guild id -> list
    monster_table,    \* self.MONSTERS: the template dict of each monster
    cooldown,         \* now - config.guild(g).cooldown
    on_cooldown,      \* the command's cooldown bucket (rate=1, per=5, guild)
    bal,              \* the bank balance of each user
    apc, actx,        \* the adventure tasks: position and locals
    gc_alive, swept,  \* the sweep task: still running / has run this minute
    hpc, hctx,        \* the reaction handlers: position and locals
    restrict,         \* config.restrict
    react_messaged,   \* self._react_messaged (a list read with "in" only:
                      \* the set of its members)
    locks,            \* self.locks: the asyncio.Lock of each user
    store,            \* config.user(u): the persisted character sheets
    lpc, lctx,        \* the operations on sheets: position and locals
    rewards,          \* self._rewards: what _reward has set aside for each user
    call              \* the method of a character or an item last called: its
                      \* name, what it was called on and what it returned

vars == <<sessions, heap, last_raids, monster_table, cooldown, on_cooldown, bal,
          apc, actx, gc_alive, swept, hpc, hctx, restrict, react_messaged,
          locks, store, lpc, lctx, rewards, call>>

\* ------------------------------------------------------------- helpers ----
Range(s) == {s[i] : i \in DOMAIN s}
Min(a, b) == IF a < b THEN a ELSE b
Max(a, b) == IF a > b THEN a ELSE b

\* list(set(xs)): the members once each (the order of a set is arbitrary;
\* the model fixes ascending order)
RECURSIVE SetToSeq(_)
SetToSeq(S) ==
    IF S = {} THEN <<>>
    ELSE LET m == CHOOSE x \in S : \A y \in S : x <= y
         IN  <<m>> \o SetToSeq(S \ {m})

Dedup(xs) == SetToSeq(Range(xs))

\* GameSession.__init__ ("self.start_time = datetime.now()": age 0);
\* monster_modified_stats is the dict _dynamic_monster_stats returns, which is
\* the template dict itself: the session refers to it by the template's key
GameSession(m, stats) ==
    [challenge |-> m, boss |-> (m = "boss"), miniboss |-> (m = "miniboss"),
     timer |-> Timer(m), monster_modified_stats |-> stats,
     message_id |-> 0, participants |-> {},
     fight |-> <<>>, magic |-> <<>>, talk |-> <<>>, pray |-> <<>>, run |-> <<>>,
     age |-> 0]

\* what is left of a session object that nothing refers to any more
Freed ==
    [challenge |-> "freed", boss |-> FALSE, miniboss |-> FALSE,
     timer |-> 0, monster_modified_stats |-> "freed",
     message_id |-> 0, participants |-> {},
     fight |-> <<>>, magic |-> <<>>, talk |-> <<>>, pray |-> <<>>, run |-> <<>>,
     age |-> 0]

\* the locals of _result: the handlers' totals (in halves of a point, a
\* fumbled prayer adds 2.5 a head), the thresholds and the verdicts
NoResult ==
    [fumblelist |-> {}, attack |-> 0, magic |-> 0, diplomacy |-> 0, hp |-> 0, dipl |-> 0,
     failed |-> FALSE, slain |-> FALSE, persuaded |-> FALSE, success |-> FALSE, people |-> 0]

\* self._rewards[user.id]: xp, cp and the number of chests ("special")
NoReward == [xp |-> 0, cp |-> 0, special |-> 0]

\* the locals of an invocation; copy is "reward_copy = reward.copy()"
NoCtx == [guild |-> 0, author |-> 0, sid |-> 0, rsid |-> 0, left |-> 0, out |-> "none",
          res |-> NoResult, copy |-> [u \in Users |-> NoReward]]

NoHandler == [guild |-> 0, user |-> 0, action |-> "none", sid |-> 0,
              has_fund |-> FALSE, x |-> 0, restricted |-> FALSE, evicted |-> FALSE]

has_funds(u, cost) == bal[u] >= cost

\* no reaction is being handled; restrict defaults to False
InitReact ==
    /\ hpc = [h \in Handlers |-> "idle"]
    /\ hctx = [h \in Handlers |-> NoHandler]
    /\ restrict = FALSE
    /\ react_messaged = {}

NoSheet == [loaded |-> FALSE, backpack |-> 0, exp |-> 0, adventures |-> 0,
            skill_pool |-> 0, skill_int |-> 0, treasure |-> 0]

NoOp == [op |-> "none", user |-> 0, buyer |-> 0, c |-> NoSheet, buy_user |-> NoSheet,
         userbalance |-> 0, cost |-> 0, out |-> "none"]

\* skill["int"] of a user who has spent the skill points
SkillInt == 3

\* every user has a sheet with one copy of the item in the backpack, no
\* chests, and the skill points spent
InitLocks ==
    /\ locks = [u \in Users |-> 0]
    /\ store = [u \in Users |-> [backpack |-> 1, exp |-> 0, adventures |-> 0,
                                 skill_pool |-> 0, skill_int |-> SkillInt,
                                 treasure |-> 0]]
    /\ lpc = [t \in Ops |-> "idle"]
    /\ lctx = [t \in Ops |-> NoOp]

\* "self._rewards = {}"
InitResolver == rewards = [u \in Users |-> NoReward]

NoCall == [fn |-> "none", arg |-> 0, val |-> 0]

\* no method has been called yet
InitCall == call = NoCall

InitAdv ==
    /\ sessions = << >>
    /\ heap = << >>
    /\ last_raids = << >>
    /\ monster_table = LoadedMonsters
    /\ cooldown = [g \in Guilds |-> SinceCap]
    /\ on_cooldown = [g \in Guilds |-> FALSE]
    /\ apc = [t \in AdvTasks |-> "idle"]
    /\ actx = [t \in AdvTasks |-> NoCtx]
    /\ gc_alive = TRUE
    /\ swept = FALSE

\* the first user has nothing in the bank, the others the entry cost
Balance0(u) == IF u = 1 THEN 0 ELSE EntryCost

InitBank == bal = [u \in Users |-> Balance0(u)]

Init == InitAdv /\ InitReact /\ InitBank /\ InitLocks /\ InitResolver /\ InitCall

\* variables an adventure task never writes
quietFrame == <<hpc, hctx, restrict, react_messaged, locks, lpc, lctx, call>>
\* ... and those only its resolver and its payout write
cogFrame == <<bal, store, rewards, quietFrame>>
\* ... and the monster table, which only _simple writes
advFrame == <<monster_table, cogFrame>>

Live(g) == g \in DOMAIN sessions

\* del self._sessions[g]
Delete(reg, g) == [x \in DOMAIN reg \ {g} |-> reg[x]]

\* self._sessions[g] = obj
Register(reg, g, obj) == [x \in DOMAIN reg \cup {g} |-> IF x = g THEN obj ELSE reg[x]]

NewId == Cardinality(DOMAIN heap) + 1

\* The objects still referred to: by the registry, by the local "session" of
\* _choice (until the countdown is created) and of _result.
Refs(reg, pcs, ctx) ==
    {reg[g] : g \in DOMAIN reg}
    \cup {ctx[t].sid : t \in {x \in AdvTasks : pcs[x] = "send"}}
    \cup {ctx[t].rsid : t \in {x \in AdvTasks : pcs[x] = "payout"}}

Collect(h, reg, pcs, ctx) ==
    [sid \in DOMAIN h |-> IF sid \in Refs(reg, pcs, ctx) THEN h[sid] ELSE Freed]

Heap(h) == heap' = Collect(h, sessions', apc', actx')

Goto(t, label) == apc' = [apc EXCEPT ![t] = label]

\* the coroutine returns: its locals are gone (the model keeps the id of the
\* session it created and how it ended)
Finish(t, how) ==
    /\ apc' = [apc EXCEPT ![t] = "done"]
    /\ actx' = [actx EXCEPT ![t] = [NoCtx EXCEPT !.guild = actx[t].guild,
                                                 !.sid = actx[t].sid, !.out = how]]

\* add_result that pops the newest entry of a full history
add_result_newest(raids, g, entry) ==
    LET cur  == IF g \in DOMAIN raids THEN raids[g] ELSE <<>>
        kept == IF Len(cur) >= num_raids THEN SubSeq(cur, 1, Len(cur) - 1) ELSE cur
    IN  [x \in DOMAIN raids \cup {g} |-> IF x = g THEN Append(kept, entry) ELSE raids[x]]

\* AdventureResults.add_result
add_result(raids, g, entry) ==
    LET cur  == IF g \in DOMAIN raids THEN raids[g] ELSE <<>>
        kept == IF Len(cur) >= num_raids THEN Tail(cur) ELSE cur
    IN  [x \in DOMAIN raids \cup {g} |-> IF x = g THEN Append(kept, entry) ELSE raids[x]]

\* AdventureResults.get_stat_range registers an empty history for a group
\* that has none
Touch(raids, g) ==
    IF g \in DOMAIN raids THEN raids ELSE Register(raids, g, <<>>)

\* AdventureResults.get_stat_range: win_percent = num_wins / raid_count as the
\* pair <<num_wins, raid_count>>; with no history the key is missing and
\* _dynamic_monster_stats reads stat_range.get("win_percent", 0.5)
win_percent(raids, g) ==
    LET cur == IF g \in DOMAIN raids THEN raids[g] ELSE <<>>
    IN  IF Len(cur) = 0 THEN <<1, 2>>
        ELSE <<Cardinality({i \in DOMAIN cur : cur[i].success}), Len(cur)>>

\* win_percentage >= pct / 100
AtLeast(wp, pct) == 100 * wp[1] >= pct * wp[2]

\* the branch of _dynamic_monster_stats: the factors of hp and dipl in
\* tenths, the range of the per cent of pdef and mdef, and its sign
Scaling(wp) ==
    IF AtLeast(wp, 90) THEN [lo |-> 20, hi |-> 30, pmin |-> 25, pmax |-> 30, sign |-> 1]
    ELSE IF AtLeast(wp, 75) THEN [lo |-> 15, hi |-> 20, pmin |-> 15, pmax |-> 25, sign |-> 1]
    ELSE IF AtLeast(wp, 50) THEN [lo |-> 10, hi |-> 15, pmin |-> 1, pmax |-> 15, sign |-> 1]
    ELSE IF AtLeast(wp, 35) THEN [lo |-> 9, hi |-> 10, pmin |-> 1, pmax |-> 15, sign |-> -1]
    ELSE IF AtLeast(wp, 15) THEN [lo |-> 8, hi |-> 9, pmin |-> 15, pmax |-> 25, sign |-> -1]
    ELSE [lo |-> 6, hi |-> 8, pmin |-> 25, pmax |-> 30, sign |-> -1]

\* random.randrange(a, b)
randrange(a, b, roll) == IF roll = "low" THEN a ELSE b - 1

\* "if min < max: randrange(min, max) elif max < min: randrange(max, min)
\* else: max(max, min)"
NewStat(lo, hi, roll) ==
    IF lo < hi THEN randrange(lo, hi, roll)
    ELSE IF hi < lo THEN randrange(hi, lo, roll)
    ELSE Max(hi, lo)

\* _dynamic_monster_stats: the new stats, which the code assigns to the keys
\* of the dict it was handed
dynamic_monster_stats(choice, wp, roll) ==
    LET k   == Scaling(wp)
        pct == k.sign * randrange(k.pmin, k.pmax, roll)
    IN  [hp   |-> NewStat((choice.hp * k.lo) \div 10, (choice.hp * k.hi) \div 10, roll),
         dipl |-> NewStat((choice.dipl * k.lo) \div 10, (choice.dipl * k.hi) \div 10, roll),
         pdef |-> choice.pdef + (choice.pdef * pct) \div 100,
         mdef |-> choice.mdef + (choice.mdef * pct) \div 100]

\* ------------------------------------------------- the adventure command --
\* Consecutive awaits with no modelled state written between them are one
\* step; an action is named after the function whose code it runs.

\* adventure_check without its test of the registry
adventure_check_unchecked(t, g, u) ==
    /\ apc[t] = "idle"
    /\ \A t2 \in AdvTasks : t2 < t => apc[t2] # "idle"
    /\ Cardinality({t2 \in AdvTasks : apc[t2] \notin {"idle", "done"}}) < MaxInFlight
    /\ ~on_cooldown[g]
    /\ on_cooldown' = [on_cooldown EXCEPT ![g] = TRUE]
    /\ apc' = [apc EXCEPT ![t] = "funds"]
    /\ actx' = [actx EXCEPT ![t] = [NoCtx EXCEPT !.guild = g, !.author = u]]
    /\ UNCHANGED <<sessions, last_raids, cooldown, gc_alive, swept, advFrame>>
    /\ Heap(heap)

\* @commands.cooldown(rate=1, per=5, guild) admits the invocation and
\* adventure_channels is read; then "if ctx.guild.id in self._sessions:
\* return ...", otherwise on to "await has_funds(ctx.author, 250)"
adventure_check(t, g, u) ==
    /\ apc[t] = "idle"
    /\ \A t2 \in AdvTasks : t2 < t => apc[t2] # "idle"
    /\ Cardinality({t2 \in AdvTasks : apc[t2] \notin {"idle", "done"}}) < MaxInFlight
    /\ ~on_cooldown[g]
    /\ on_cooldown' = [on_cooldown EXCEPT ![g] = TRUE]
    /\ IF Live(g)
       THEN /\ apc' = [apc EXCEPT ![t] = "done"]
            /\ actx' = [actx EXCEPT ![t] = [NoCtx EXCEPT !.guild = g, !.out = "already"]]
       ELSE /\ apc' = [apc EXCEPT ![t] = "funds"]
            /\ actx' = [actx EXCEPT ![t] = [NoCtx EXCEPT !.guild = g, !.author = u]]
    /\ UNCHANGED <<sessions, last_raids, cooldown, gc_alive, swept, advFrame>>
    /\ Heap(heap)

\* has_funds and config.guild(...).all() have answered:
\* "if cooldown + cooldown_time > time.time(): return ..."; otherwise on to
\* the awaits of send_log, is_owner, update_monster_roster and get_challenge
adventure_funds(t) ==
    /\ apc[t] = "funds"
    /\ IF ~has_funds(actx[t].author, EntryCost)
       THEN Finish(t, "broke")
       ELSE IF cooldown[actx[t].guild] < CooldownTimer
            THEN Finish(t, "cooldown")
            ELSE /\ Goto(t, "prepare")
                 /\ actx' = [actx EXCEPT ![t].author = 0]   \* not read again
    /\ UNCHANGED <<sessions, last_raids, cooldown, on_cooldown, gc_alive, swept, advFrame>>
    /\ Heap(heap)

\* _simple: the challenge m is chosen (get_challenge reads the stat range),
\* its template is scaled by _dynamic_monster_stats, which writes the new
\* stats into the template; the session is stored under the guild id whatever
\* is there, and _choice runs to its ctx.send
simple_create(t, m, roll) ==
    /\ apc[t] = "prepare"
    /\ LET g == actx[t].guild IN
       /\ sessions' = Register(sessions, g, NewId)
       /\ actx' = [actx EXCEPT ![t].sid = NewId]
       /\ last_raids' = Touch(last_raids, g)
       /\ monster_table' = [monster_table EXCEPT ![m] =
              dynamic_monster_stats(monster_table[m], win_percent(last_raids, g), roll)]
    /\ Goto(t, "send")
    /\ UNCHANGED <<cooldown, on_cooldown, gc_alive, swept, cogFrame>>
    /\ Heap(Register(heap, NewId, GameSession(m, m)))

\* "except Exception: await cooldown.set(0); log.exception(...); return" in
\* _adventure: the session is left as it is
adventure_except(t) ==
    /\ cooldown' = [cooldown EXCEPT ![actx[t].guild] = SinceCap]
    /\ Finish(t, "error")

\* get_challenge returned None (the author's sheet failed to load), so
\* monster_roster[challenge] raises before a session is stored
simple_fails(t) ==
    /\ apc[t] = "prepare"
    /\ adventure_except(t)
    /\ UNCHANGED <<sessions, last_raids, on_cooldown, gc_alive, swept, advFrame>>
    /\ Heap(heap)

\* _choice: ctx.send returned the adventure message; the task's own session
\* object gets its id, the countdown is created and awaited
choice_send(t) ==
    /\ apc[t] = "send"
    /\ LET sid == actx[t].sid IN
       actx' = [actx EXCEPT ![t].left = heap[sid].timer]
    /\ Goto(t, "wait")
    /\ UNCHANGED <<sessions, last_raids, cooldown, on_cooldown, gc_alive, swept, advFrame>>
    /\ Heap([heap EXCEPT ![actx[t].sid].message_id = actx[t].sid])

\* "if not reward and not participants: await cooldown.set(0); while
\* ctx.guild.id in self._sessions: del ...; return" in _adventure
adventure_abort(t) ==
    /\ cooldown' = [cooldown EXCEPT ![actx[t].guild] = SinceCap]
    /\ sessions' = Delete(sessions, actx[t].guild)
    /\ Finish(t, "noop")

\* wait_for(timer, timeout + 5) returns when the countdown is over, or raises
\* (early) and the error is logged; either way _result is entered:
\* "if ctx.guild.id not in self._sessions: return" (and _simple returns
\* (None, None)), else the awaits of ctx.send('Calculating...') and
\* message.clear_reactions()
choice_timer(t, early) ==
    /\ apc[t] = "wait"
    /\ early \/ actx[t].left = 0
    /\ IF Live(actx[t].guild)
       THEN /\ Goto(t, "tally")
            /\ actx' = [actx EXCEPT ![t].left = 0]
            /\ UNCHANGED <<sessions, cooldown>>
       ELSE adventure_abort(t)
    /\ UNCHANGED <<last_raids, on_cooldown, gc_alive, swept, advFrame>>
    /\ Heap(heap)

People(s) == Len(Dedup(s.fight)) + Len(Dedup(s.magic)) + Len(Dedup(s.talk))
             + Len(Dedup(s.pray)) + Len(Dedup(s.run))

\* int(x) of a number x kept in halves: the fraction is cut off
IntOf_rounded(x2) == (x2 + 1) \div 2

IntOf(x2) == IF x2 >= 0 THEN x2 \div 2 ELSE -((-x2) \div 2)

\* self.ATTRIBS[attribute]: the factors of hp and dipl, in halves
ATTRIBS == {<<2, 2>>, <<3, 1>>}

\* session.monster_stats as update_monster_roster returns it for an author
\* with fewer than 10 rebirths when the encounter is not transcended
MonsterStats == 1

\* session.miniboss["requirements"]: the kind of requirement and, for
\* "members", the number of participants to be exceeded
REQS == {"members", "emoji", "item"}
Slot == 1

\* handle_basilisk: the miniboss gate.  n participants; reacted is
\* session.reacted; equipped says that a participant carries the item
handle_basilisk(s, n, req, reacted, equipped) ==
    IF s.miniboss
    THEN IF req = "members" THEN ~(n > Slot)
         ELSE IF req = "emoji" /\ reacted THEN FALSE
         ELSE ~equipped
    ELSE FALSE

\* what the handlers total for an action against the threshold th: nothing,
\* half a point less than the threshold, or the threshold
ROLLED == {"none", "short", "enough"}
Total(r, th) ==
    IF r = "none" THEN 0 ELSE IF r = "short" THEN Max(0, 2 * th - 1) ELSE 2 * th

\* _result, from "hp = int(...)" to "success = True": the thresholds and the
\* verdicts for the totals attack, magic and diplomacy (in halves)
Outcome(stats, attrib, attack, magic, diplomacy, failed) ==
    LET hp        == IntOf(stats.hp * attrib[1] * MonsterStats)
        dipl      == IntOf(stats.dipl * attrib[2] * MonsterStats)
        dmg_dealt == IntOf(attack + magic)
        talked    == IntOf(diplomacy)
        slain     == dmg_dealt >= hp
        persuaded == talked >= dipl
    IN  [hp |-> hp, dipl |-> dipl, dmg_dealt |-> dmg_dealt, diplomacy |-> talked,
         slain |-> slain, persuaded |-> persuaded,
         success |-> (slain \/ persuaded) /\ ~failed]

\* "if dmg_dealt >= diplomacy: add_result(ctx, "attack", dmg_dealt, people,
\* slain) else: add_result(ctx, "talk", diplomacy, people, persuaded)"; the
\* model adds the id of the session resolved
RaidEntry(sid, o, people) ==
    IF o.dmg_dealt >= o.diplomacy
    THEN [session |-> sid, main_action |-> "attack", amount |-> o.dmg_dealt,
          num_ppl |-> people, success |-> o.slain]
    ELSE [session |-> sid, main_action |-> "talk", amount |-> o.diplomacy,
          num_ppl |-> people, success |-> o.persuaded]

\* xs without the members of S
Without(xs, S) == SelectSeq(xs, LAMBDA u : u \notin S)

\* _result up to "await calc_msg.delete()": "session =
\* self._sessions[ctx.guild.id]" (KeyError when the session went away during
\* the awaits); the rosters are de-duplicated into the registered session;
\* handle_run, handle_basilisk, handle_pray, handle_talk and handle_fight
\* total the rolls and take those who fumbled out of session.fight, .magic
\* and .talk, which are the lists _result goes on with; the outcome is
\* recorded with add_result.  Inputs: the attribute _simple drew and, as far
\* as the rosters allow them, who fumbled, what the handlers totalled, the
\* requirement of the miniboss and whether it is met by a reaction or an item.
Tally(t, attrib, fumbles, a, m, d, req, met) ==
    /\ LET g == actx[t].guild IN
            LET sid    == sessions[g]
                s      == heap[sid]
                stats  == monster_table[s.monster_modified_stats]
                party  == Range(s.fight) \cup Range(s.magic) \cup Range(s.talk)
                          \cup Range(s.pray)
                failed == handle_basilisk(s, Cardinality(party), req,
                                          met /\ req = "emoji", met /\ req = "item")
                th     == Outcome(stats, attrib, 0, 0, 0, failed)
                attack == Total(a, th.hp)
                spell  == IF m = "none" THEN 0 ELSE 1
                diplo  == Total(d, th.dipl)
                o      == Outcome(stats, attrib, attack, spell, diplo, failed)
            IN  /\ last_raids' = add_result(last_raids, g, RaidEntry(sid, o, People(s)))
                /\ actx' = [actx EXCEPT ![t].rsid = sid,
                              ![t].res = [fumblelist |-> fumbles, attack |-> attack,
                                          magic |-> spell, diplomacy |-> diplo,
                                          hp |-> o.hp, dipl |-> o.dipl, failed |-> failed,
                                          slain |-> o.slain, persuaded |-> o.persuaded,
                                          success |-> o.success, people |-> People(s)]]
                /\ Goto(t, "payout")
                /\ UNCHANGED cooldown
                /\ Heap([heap EXCEPT ![sid].fight = Without(Dedup(s.fight), fumbles),
                                     ![sid].talk  = Without(Dedup(s.talk), fumbles),
                                     ![sid].pray  = Dedup(s.pray),
                                     ![sid].run   = Dedup(s.run),
                                     ![sid].magic = Without(Dedup(s.magic), fumbles)])

\* the outcomes a handler can arrive at for a roster
Rolled(roster) == IF roster = <<>> THEN {"none"} ELSE ROLLED

result_tally(t) ==
    /\ apc[t] = "tally"
    /\ UNCHANGED <<sessions, on_cooldown, gc_alive, swept, advFrame>>
    /\ IF Live(actx[t].guild)
       THEN LET s     == heap[sessions[actx[t].guild]]
                party == Range(s.fight) \cup Range(s.magic) \cup Range(s.talk)
                         \cup Range(s.pray)
            IN  \E attrib \in ATTRIBS, fumbles \in SUBSET party,
                   a \in Rolled(s.fight), m \in Rolled(s.magic) \ {"enough"},
                   d \in Rolled(s.talk),
                   req \in (IF s.miniboss THEN REQS ELSE {"members"}),
                   met \in (IF s.miniboss /\ party # {} THEN BOOLEAN ELSE {FALSE}) :
                    Tally(t, attrib, fumbles, a, m, d, req, met)
       ELSE adventure_except(t) /\ UNCHANGED last_raids /\ Heap(heap)

\* round(p / q) of Python for p >= 0 and q > 0: halves go to the even side
Round(p, q) ==
    LET f == p \div q
        r == p % q
    IN  IF 2 * r < q THEN f
        ELSE IF 2 * r > q THEN f + 1
        ELSE IF f % 2 = 0 THEN f ELSE f + 1

\* c.dex of the sheets loaded
DEX == {-2, 0, 4}

\* the loss of a user with balance b: "multiplier = 0.2", divided by
\* max(abs(dex), 3) for dex > 0 and by min(1 / abs(dex), 1) for dex < 0;
\* "loss = round(c.bal * multiplier)"; "loss = min(min(loss, balance),
\* 1000000000)"
Loss(b, dex) ==
    LET loss == IF dex > 0 THEN Round(b, 5 * Max(dex, 3))
                ELSE IF dex < 0 THEN Round(b * (-dex), 5)
                ELSE Round(b, 5)
    IN  Min(Min(loss, b), 1000000000)

\* "if c.bal > 0: ... if c.bal > loss: await bank.withdraw_credits(user,
\* loss) else: await bank.set_balance(user, 0)"
Charged(b, dex) ==
    IF b > 0 THEN (IF b > Loss(b, dex) THEN b - Loss(b, dex) ELSE 0) ELSE b

\* the users _reward is called with, by verdict: with one person in the
\* encounter once for slain and once for persuaded, otherwise once
Rewarded(s, r) ==
    LET fight == Range(s.fight)
        magic == Range(s.magic)
        talk  == Range(s.talk)
        pray  == Range(s.pray)
    IN  (  (IF r.slain THEN fight \cup magic \cup pray ELSE {})
      \cup (IF r.persuaded THEN talk \cup pray ELSE {})) \ r.fumblelist

\* the users whose loss is withdrawn when the encounter is lost: "users =
\* set(fight_list + magic_list + talk_list + pray_list + fumblelist)".  The
\* users of run_list are put on repair_list and, being on it, are skipped by
\* the test that guards their withdrawal.
Penalised(s, r) ==
    Range(s.fight) \cup Range(s.magic) \cup Range(s.talk) \cup Range(s.pray)
    \cup r.fumblelist

\* "if session.miniboss and failed: ... return await smart_embed(...)"
GateReturns_never(s, r) == FALSE

GateReturns(s, r) == s.miniboss /\ r.failed

\* _reward for a sheet without rebirths, luck, intelligence or set bonus on a
\* day without bonus: "amount = 1 * session.monster_stats; amount *= (hp +
\* dipl) if slain and persuaded else hp if slain else dipl; amount +=
\* int(amount * (0.25 * people))"; xp = cp = max(1, round(amount)); special
\* is 1 when treasure is not False
Reward(s, r, chest) ==
    LET base   == MonsterStats * (IF r.slain /\ r.persuaded THEN r.hp + r.dipl
                                  ELSE IF r.slain THEN r.hp ELSE r.dipl)
        amount == base + (base * r.people) \div 4
    IN  [xp |-> Max(1, amount), cp |-> Max(1, amount),
         special |-> IF s.boss \/ s.miniboss \/ chest THEN 1 ELSE 0]

\* _result from "success = False" on: the gate of the miniboss, the rewards
\* set aside by _reward or the losses withdrawn, "session.participants =
\* set(...)" on the session object read at the start; then _simple returns
\* ((None, None) if the session is gone) and _adventure stores
\* cooldown.set(time.time()).  Inputs: c.dex of the sheets and whether the
\* treasure roll gives a chest.
result_payout(t, dex, chest) ==
    /\ apc[t] = "payout"
    /\ IF Live(actx[t].guild)
       THEN /\ cooldown' = [cooldown EXCEPT ![actx[t].guild] = 0]
            /\ actx' = [actx EXCEPT ![t].rsid = 0]
            /\ Goto(t, "rewards")
            /\ UNCHANGED sessions
       ELSE adventure_abort(t)
    /\ UNCHANGED <<last_raids, on_cooldown, gc_alive, swept, monster_table, store,
                   quietFrame>>
    /\ LET sid  == actx[t].rsid
           s    == heap[sid]
           r    == actx[t].res
           lost == ~r.slain /\ ~r.persuaded
           pays == IF GateReturns(s, r) \/ lost THEN Penalised(s, r) ELSE {}
           wins == IF GateReturns(s, r) THEN {} ELSE Rewarded(s, r)
       IN  /\ bal' = [u \in Users |-> IF u \in pays THEN Charged(bal[u], dex) ELSE bal[u]]
           /\ rewards' = [u \in Users |->
                             IF u \in wins THEN Reward(s, r, chest) ELSE rewards[u]]
           /\ Heap([heap EXCEPT ![sid].participants =
                       IF GateReturns(s, r) THEN Penalised(s, r)
                       ELSE Penalised(s, r) \cup Range(s.run)])

\* an awaited call of _choice or _result raises (discord.HTTPException from
\* ctx.send, message.delete, ...) and is caught by _adventure
choice_raises(t) ==
    /\ apc[t] \in {"send", "tally", "payout"}
    /\ adventure_except(t)
    /\ UNCHANGED <<sessions, last_raids, on_cooldown, gc_alive, swept, advFrame>>
    /\ Heap(heap)

\* _adventure: nobody took part and there is no reward, "if not reward and
\* not participants: await cooldown.set(0); while ...: del ...; return"
\* (reward is self._rewards, which is empty until a first user is rewarded)
adventure_nobody(t) ==
    /\ apc[t] = "rewards"
    /\ Live(actx[t].guild) => heap[sessions[actx[t].guild]].participants = {}
    /\ \A u \in Users : rewards[u] = NoReward
    /\ adventure_abort(t)
    /\ UNCHANGED <<last_raids, on_cooldown, gc_alive, swept, advFrame>>
    /\ Heap(heap)

\* _adventure: "for (userid, rewards) in reward_copy.items(): if rewards:"
\* _add_rewards adds the xp to the sheet and deposits the cp, and
\* "self._rewards[userid] = {}"; the participants' abilities are reset; then
\* "while ctx.guild.id in self._sessions: del self._sessions[...]"
adventure_finish(t) ==
    /\ apc[t] = "rewards"
    /\ sessions' = Delete(sessions, actx[t].guild)
    /\ Finish(t, "finished")
    /\ bal' = [u \in Users |-> bal[u] + rewards[u].cp]
    /\ store' = [u \in Users |-> [store[u] EXCEPT !.exp = @ + rewards[u].xp]]
    /\ rewards' = [u \in Users |-> NoReward]
    /\ UNCHANGED <<last_raids, cooldown, on_cooldown, gc_alive, swept, monster_table,
                   quietFrame>>
    /\ Heap(heap)

\* an error outside the try block (in _add_rewards or a send) reaches
\* _error_handler, which deletes the guild's session
error_handler(t) ==
    /\ apc[t] = "rewards"
    /\ sessions' = Delete(sessions, actx[t].guild)
    /\ Finish(t, "error")
    /\ UNCHANGED <<last_raids, cooldown, on_cooldown, gc_alive, swept, advFrame>>
    /\ Heap(heap)

\* five seconds have passed since the last admitted invocation
cooldown_expires(g) ==
    /\ on_cooldown[g]
    /\ on_cooldown' = [on_cooldown EXCEPT ![g] = FALSE]
    /\ UNCHANGED <<sessions, heap, last_raids, cooldown, apc, actx, gc_alive, swept, advFrame>>

\* --------------------------------------------------------------- sweep ----
\* The loop target "guild_id, session" takes one element of the iteration.
\* AsyncIter iterates the dict copy itself, which yields its keys, and a
\* guild id is an int: it cannot be unpacked into two names.
Unpackable(elem) == elem \notin Int

\* "if session.start_time + delta > datetime.now()" selects what is deleted
SweepSelects(s) == TTL > s.age

\* One pass of the loop of _garbage_collection, then "await asyncio.sleep(5)".
\* The TypeError of a failed unpacking is not an asyncio.CancelledError: it
\* is not suppressed and ends the task.
garbage_collection ==
    /\ gc_alive
    /\ LET copy == sessions IN
       IF \E g \in DOMAIN copy : ~Unpackable(g)
       THEN gc_alive' = FALSE /\ UNCHANGED sessions
       ELSE /\ sessions' = [g \in {x \in DOMAIN copy : ~SweepSelects(heap[copy[x]])}
                                |-> sessions[g]]
            /\ UNCHANGED gc_alive
    /\ swept' = TRUE
    /\ UNCHANGED <<last_raids, cooldown, on_cooldown, apc, actx, advFrame>>
    /\ Heap(heap)

\* --------------------------------------------------------------- clock ----
\* A minute passes. wait_for(timer, timeout + 5) lets no countdown be awaited
\* a minute past its end, and the sweep sleeps 5 seconds between passes.
Tick ==
    /\ \A t \in AdvTasks : apc[t] = "wait" => actx[t].left > 0
    /\ swept \/ ~gc_alive
    /\ heap' = [sid \in DOMAIN heap |->
                   IF heap[sid] = Freed THEN Freed
                   ELSE [heap[sid] EXCEPT !.age = Min(@ + 1, AgeCap)]]
    /\ actx' = [t \in AdvTasks |-> [actx[t] EXCEPT !.left = Max(@ - 1, 0)]]
    /\ cooldown' = [g \in Guilds |-> Min(cooldown[g] + 1, SinceCap)]
    /\ swept' = FALSE
    /\ on_cooldown' = [g \in Guilds |-> FALSE]
    /\ UNCHANGED <<sessions, last_raids, apc, gc_alive, advFrame>>

AdvStep ==
    \/ \E t \in AdvTasks, g \in Starters, u \in Users : adventure_check(t, g, u)
    \/ \E t \in AdvTasks : adventure_funds(t)
    \/ \E t \in AdvTasks, m \in MONSTERS : simple_create(t, m, "low")
    \/ \E t \in AdvTasks : simple_fails(t)
    \/ \E t \in AdvTasks : choice_send(t)
    \/ \E t \in AdvTasks, early \in BOOLEAN : choice_timer(t, early)
    \/ \E t \in AdvTasks : result_tally(t)
    \/ \E t \in AdvTasks, dex \in DEX, chest \in BOOLEAN : result_payout(t, dex, chest)
    \/ \E t \in AdvTasks : choice_raises(t)
    \/ \E t \in AdvTasks : adventure_nobody(t)
    \/ \E t \in AdvTasks : adventure_finish(t)
    \/ \E t \in AdvTasks : error_handler(t)
    \/ \E g \in Guilds : cooldown_expires(g)
    \/ garbage_collection
    \/ Tick

Next == AdvStep

Spec == Init /\ [][Next]_vars

\* ------------------------------------------------------------ resolver ----
\* The state when the countdown of the first encounter of the first group is
\* over: _simple has scaled the template of the monster m (no history yet),
\* the session is registered, every user has reacted for one of the rosters
\* or for none, and _result is entered.
CHOICES == {"none"} \cup Range(ROSTERS)

Roster(choice, r) == SetToSeq({u \in Users : choice[u] = r})

InitEncounter ==
    \E m \in MONSTERS, roll \in ROLLS, choice \in [Users -> CHOICES] :
        /\ sessions = [g \in {1} |-> 1]
        /\ heap = [sid \in {1} |->
                      [GameSession(m, m) EXCEPT !.message_id = 1,
                                                !.fight = Roster(choice, "fight"),
                                                !.magic = Roster(choice, "magic"),
                                                !.talk = Roster(choice, "talk"),
                                                !.pray = Roster(choice, "pray"),
                                                !.run = Roster(choice, "run")]]
        /\ last_raids = [g \in {1} |-> <<>>]
        /\ monster_table = [LoadedMonsters EXCEPT ![m] =
                               dynamic_monster_stats(LoadedMonsters[m], <<1, 2>>, roll)]
        /\ cooldown = [g \in Guilds |-> SinceCap]
        /\ on_cooldown = [g \in Guilds |-> FALSE]
        /\ apc = [t \in AdvTasks |-> IF t = 1 THEN "tally" ELSE "idle"]
        /\ actx = [t \in AdvTasks |->
                      IF t = 1 THEN [NoCtx EXCEPT !.guild = 1, !.sid = 1] ELSE NoCtx]
        /\ gc_alive = TRUE
        /\ swept = FALSE

InitResult == InitEncounter /\ InitReact /\ InitBank /\ InitLocks /\ InitResolver /\ InitCall

NextResult ==
    \/ \E t \in AdvTasks : result_tally(t)
    \/ \E t \in AdvTasks, dex \in DEX, chest \in BOOLEAN : result_payout(t, dex, chest)
    \/ \E t \in AdvTasks : adventure_nobody(t)
    \/ \E t \in AdvTasks : adventure_finish(t)

SpecResult == InitResult /\ [][NextResult]_vars

\* ------------------------------------------------------ roster reactions --
\* The state once the first start request, made in the first group, has run
\* up to its countdown (adventure_check, adventure_funds, simple_create,
\* choice_send): the session is open and its message is up for reactions.
Openers == {t \in AdvTasks : t \in Guilds /\ \A t2 \in AdvTasks : t <= t2}

InitOpen ==
    /\ sessions = [g \in Openers |-> g]
    /\ heap = [g \in Openers |->
                  [GameSession("normal", "normal") EXCEPT !.message_id = g]]
    /\ last_raids = << >>
    /\ monster_table = LoadedMonsters
    /\ cooldown = [g \in Guilds |-> SinceCap]
    /\ on_cooldown = [g \in Guilds |-> g \in Openers]
    /\ apc = [t \in AdvTasks |-> IF t \in Openers THEN "wait" ELSE "idle"]
    /\ actx = [t \in AdvTasks |->
                  IF t \in Openers
                  THEN [NoCtx EXCEPT !.guild = t, !.sid = t, !.left = Timer("normal")]
                  ELSE NoCtx]
    /\ gc_alive = TRUE
    /\ swept = FALSE

InitRoster == InitOpen /\ InitReact /\ InitBank /\ InitLocks /\ InitResolver /\ InitCall

\* variables a reaction handler never writes
reactFrame == <<sessions, last_raids, monster_table, cooldown, on_cooldown, bal, apc, actx,
                gc_alive, swept, locks, store, lpc, lctx, rewards, call>>

Count(xs, u) == Cardinality({i \in DOMAIN xs : xs[i] = u})

\* the number of entries of user u in the five rosters of session s
Occurrences(s, u) ==
    Count(s.fight, u) + Count(s.magic, u) + Count(s.talk, u)
    + Count(s.pray, u) + Count(s.run, u)

\* list.remove that removes nothing
RemoveFirst_kept(xs, u) == xs

\* list.remove(u): the first entry equal to u is taken out
RemoveFirst(xs, u) ==
    IF \E i \in DOMAIN xs : xs[i] = u
    THEN LET k == CHOOSE i \in DOMAIN xs :
                      xs[i] = u /\ \A j \in DOMAIN xs : xs[j] = u => i <= j
         IN  [i \in 1..(Len(xs) - 1) |-> IF i < k THEN xs[i] ELSE xs[i + 1]]
    ELSE xs

\* "for x in [...]": the iterations from the i-th on, up to the first that
\* awaits remove_reaction (x is its index) or to the end of the loop (x = 6)
RECURSIVE EvictLoop(_, _, _, _)
EvictLoop(s, u, i, has_fund) ==
    IF i > Len(ROSTERS) THEN [session |-> s, x |-> i]
    ELSE LET r  == ROSTERS[i]
             s1 == IF u \in Range(s[r])
                   THEN [s EXCEPT ![r] = RemoveFirst(s[r], u)] ELSE s
         IN  IF ~has_fund \/ u \in Range(s1[r])
             THEN [session |-> s1, x |-> i]
             ELSE EvictLoop(s1, u, i + 1, has_fund)

\* the loop runs on from iteration i; after its last iteration the handler
\* awaits config.restrict()
Evict(h, i, has_fund) ==
    LET c == hctx[h]
        e == EvictLoop(heap[c.sid], c.user, i, has_fund)
    IN  /\ heap' = [heap EXCEPT ![c.sid] = e.session]
        /\ hctx' = [hctx EXCEPT ![h].has_fund = has_fund,
                                ![h].x = IF e.x > Len(ROSTERS) THEN 0 ELSE e.x,
                                ![h].evicted = @ \/ e.session # heap[c.sid]]
        /\ hpc' = [hpc EXCEPT ![h] = IF e.x > Len(ROSTERS) THEN "restrict" ELSE "unreact"]

\* on_reaction_add: the reaction is on the adventure message of the guild's
\* session; _handle_adventure takes the action and the session object and
\* awaits has_funds(user, 250)
on_reaction_add(h, g, u, a) ==
    /\ hpc[h] = "idle"
    /\ \A h2 \in Handlers : h2 < h => hpc[h2] # "idle"
    /\ Live(g)
    /\ heap[sessions[g]].message_id # 0
    /\ hpc' = [hpc EXCEPT ![h] = "funds"]
    /\ hctx' = [hctx EXCEPT ![h] = [NoHandler EXCEPT !.guild = g, !.user = u,
                                        !.action = a, !.sid = sessions[g]]]
    /\ UNCHANGED <<heap, restrict, react_messaged, reactFrame>>

\* has_funds answered; the eviction loop starts
handle_funds(h) ==
    /\ hpc[h] = "funds"
    /\ Evict(h, 1, has_funds(hctx[h].user, EntryCost))
    /\ UNCHANGED <<restrict, react_messaged, reactFrame>>

\* remove_reaction returned; the loop goes on with the next roster
handle_unreact(h) ==
    /\ hpc[h] = "unreact"
    /\ Evict(h, hctx[h].x + 1, hctx[h].has_fund)
    /\ UNCHANGED <<restrict, react_messaged, reactFrame>>

\* a scan that finds nobody
all_users_none == {}

\* the users in a roster of any registered session
all_users == UNION {UNION {Range(heap[sessions[g]][ROSTERS[i]]) : i \in DOMAIN ROSTERS}
                    : g \in DOMAIN sessions}

\* config.restrict() answered: "if user not in getattr(session, action)" the
\* user is told to be broke, or told to be in another adventure (once), or
\* appended to the chosen roster
handle_restrict(h) ==
    /\ hpc[h] = "restrict"
    /\ LET c == hctx[h]
           s == heap[c.sid]
       IN  /\ hctx' = [hctx EXCEPT ![h].restricted = restrict]
           /\ IF c.user \in Range(s[c.action]) \/ ~c.has_fund
              THEN /\ hpc' = [hpc EXCEPT ![h] = "done"]
                   /\ UNCHANGED heap
              ELSE IF restrict /\ c.user \in all_users
                   THEN /\ hpc' = [hpc EXCEPT ![h] =
                                     IF <<c.user, c.guild>> \in react_messaged
                                     THEN "done" ELSE "notify"]
                        /\ UNCHANGED heap
                   ELSE /\ hpc' = [hpc EXCEPT ![h] = "done"]
                        /\ heap' = [heap EXCEPT ![c.sid][c.action] = Append(@, c.user)]
    /\ UNCHANGED <<restrict, react_messaged, reactFrame>>

\* channel.send returned: "self._react_messaged.append(user_id)"
handle_notify(h) ==
    /\ hpc[h] = "notify"
    /\ react_messaged' = react_messaged \cup {<<hctx[h].user, hctx[h].guild>>}
    /\ hpc' = [hpc EXCEPT ![h] = "done"]
    /\ UNCHANGED <<heap, hctx, restrict, reactFrame>>

\* on_reaction_add returns after its log message
handler_return(h) ==
    /\ hpc[h] = "done"
    /\ hpc' = [hpc EXCEPT ![h] = "idle"]
    /\ hctx' = [hctx EXCEPT ![h] = NoHandler]
    /\ UNCHANGED <<heap, restrict, react_messaged, reactFrame>>

\* the command "adventureset restrict" toggles config.restrict
restrict_toggle ==
    /\ restrict' = ~restrict
    /\ UNCHANGED <<heap, hpc, hctx, react_messaged, reactFrame>>

Quiet == \A h \in Handlers : hpc[h] = "idle"

\* a reaction that arrives when the handler of every earlier one has returned
serial_reaction(h, g, u, a) == Quiet /\ on_reaction_add(h, g, u, a)

HandlerStep ==
    \/ \E h \in Handlers : handle_funds(h)
    \/ \E h \in Handlers : handle_unreact(h)
    \/ \E h \in Handlers : handle_restrict(h)
    \/ \E h \in Handlers : handler_return(h)
    \/ restrict_toggle

\* Reactions handled one after another.  With one session open, a handler
\* that runs alone finds the user in no roster after its eviction loop, so
\* it never gets to send the notice of handle_notify.
NextSerial ==
    \/ \E h \in Handlers, g \in Guilds, u \in Users, a \in Range(ROSTERS) :
           serial_reaction(h, g, u, a)
    \/ HandlerStep

SpecSerial == InitRoster /\ [][NextSerial]_vars

\* reactions handled as they arrive
NextReact ==
    \/ \E h \in Handlers, g \in Guilds, u \in Users, a \in Range(ROSTERS) :
           on_reaction_add(h, g, u, a)
    \/ HandlerStep
    \/ \E h \in Handlers : handle_notify(h)

SpecReact == InitRoster /\ [][NextReact]_vars

\* --------------------------------------------------- participant locks ----
\* The operations that load and persist character sheets: the commands
\* backpack sell, backpack trade and negaverse, the reward engine
\* (_add_rewards) and the counters loop at the end of _result.  The bank keeps
\* its own storage and is no part of a sheet: what it answers is an input.
\* variables an operation on sheets never writes
lockFrame == <<sessions, heap, last_raids, monster_table, cooldown, on_cooldown, bal, apc, actx,
               gc_alive, swept, hpc, hctx, restrict, react_messaged, rewards, call>>

\* Character.from_json: the sheet as persisted
from_json(u) == [loaded |-> TRUE, backpack |-> store[u].backpack,
                 exp |-> store[u].exp, adventures |-> store[u].adventures,
                 skill_pool |-> store[u].skill_pool, skill_int |-> store[u].skill_int,
                 treasure |-> store[u].treasure]

\* config.user(u).set(await c.to_json(...))
Persist(st, u, c) ==
    [st EXCEPT ![u] = [backpack |-> c.backpack, exp |-> c.exp, adventures |-> c.adventures,
                       skill_pool |-> c.skill_pool, skill_int |-> c.skill_int,
                       treasure |-> c.treasure]]

\* asyncio.Lock: locks[u] is 0 when the lock of u is free, otherwise the task
\* that acquired it; release frees it whoever calls
Locked(u) == locks[u] # 0
Acquire(l, u, t) == [l EXCEPT ![u] = t]
Release(l, u) == [l EXCEPT ![u] = 0]

\* cog_before_invoke: CheckFailure when the author's lock is locked
cog_before_invoke(u) == ~Locked(u)

\* an operation is invoked on the first free task
Invoke(t, name, u, b, label) ==
    /\ lpc[t] = "idle"
    /\ \A t2 \in Ops : t2 < t => lpc[t2] # "idle"
    /\ lpc' = [lpc EXCEPT ![t] = label]
    /\ lctx' = [lctx EXCEPT ![t] = [NoOp EXCEPT !.op = name, !.user = u, !.buyer = b]]

Step(t, label) == lpc' = [lpc EXCEPT ![t] = label]

\* the operation has ended; its locals are gone
End(t, how) ==
    /\ lpc' = [lpc EXCEPT ![t] = "done"]
    /\ lctx' = [lctx EXCEPT ![t] = [NoOp EXCEPT !.op = lctx[t].op, !.user = lctx[t].user,
                                                !.buyer = lctx[t].buyer, !.out = how]]

\* the command is refused by cog_before_invoke
Refuse(t, name, u, b) ==
    /\ lpc[t] = "idle"
    /\ \A t2 \in Ops : t2 < t => lpc[t2] # "idle"
    /\ lpc' = [lpc EXCEPT ![t] = "done"]
    /\ lctx' = [lctx EXCEPT ![t] = [NoOp EXCEPT !.op = name, !.user = u, !.buyer = b,
                                                !.out = "locked"]]

\* ---- backpack sell
\* ItemConverter found the item; "lock = self.get_lock(ctx.author); await
\* lock.acquire()" (the lock was free a moment ago: no suspension), then
\* "await Character.from_json(...)"
backpack_sell(t, u) ==
    /\ store[u].backpack > 0
    /\ IF cog_before_invoke(u)
       THEN Invoke(t, "sell", u, 0, "sell_load") /\ locks' = Acquire(locks, u, t)
       ELSE Refuse(t, "sell", u, 0) /\ UNCHANGED locks
    /\ UNCHANGED <<store, lockFrame>>

\* from_json raised: release, return.  "item = c.backpack[item.name]" raises
\* KeyError: return.  Otherwise the menu is shown for 60 seconds.
sell_load(t, ok) ==
    /\ lpc[t] = "sell_load"
    /\ LET u == lctx[t].user IN
       IF ~ok
       THEN End(t, "error") /\ locks' = Release(locks, u)
       ELSE IF store[u].backpack = 0
            THEN End(t, "keyerror") /\ UNCHANGED locks
            ELSE /\ Step(t, "sell_menu")
                 /\ lctx' = [lctx EXCEPT ![t].c = from_json(u)]
                 /\ UNCHANGED locks
    /\ UNCHANGED <<store, lockFrame>>

\* nobody reacts within the 60 seconds: menu() returns, backpack_sell returns
sell_timeout(t) ==
    /\ lpc[t] = "sell_menu"
    /\ End(t, "timeout")
    /\ UNCHANGED <<locks, store, lockFrame>>

\* _backpack_sell_button_action: the reaction decides how many are sold out of
\* the loaded sheet; "finally: lock.release()"; then "if msg:" the sheet is
\* set (awaited)
backpack_sell_button_action(t, emoji) ==
    /\ lpc[t] = "sell_menu"
    /\ LET u == lctx[t].user
           c == lctx[t].c
       IN  /\ locks' = Release(locks, u)
           /\ IF emoji = "allbutone" /\ c.backpack = 1
              THEN End(t, "kept")
              ELSE /\ Step(t, "sell_persist")
                   /\ lctx' = [lctx EXCEPT ![t].c.backpack =
                                  IF emoji = "one" THEN c.backpack - 1
                                  ELSE IF emoji = "all" THEN 0
                                  ELSE IF emoji = "allbutone" THEN 1
                                  ELSE c.backpack]
    /\ UNCHANGED <<store, lockFrame>>

\* "await self.config.user(ctx.author).set(await character.to_json(...))"
sell_persist(t) ==
    /\ lpc[t] = "sell_persist"
    /\ store' = Persist(store, lctx[t].user, lctx[t].c)
    /\ End(t, "sold")
    /\ UNCHANGED <<locks, lockFrame>>

\* ---- backpack trade
\* the author a offers the item to the buyer b: "if ctx.author == buyer:
\* return ..."; then "c = await Character.from_json(...)"
backpack_trade(t, a, b) ==
    /\ a # b
    /\ IF cog_before_invoke(a)
       THEN Invoke(t, "trade", a, b, "trade_load")
       ELSE Refuse(t, "trade", a, b)
    /\ UNCHANGED <<locks, store, lockFrame>>

\* the author's sheet is loaded; without the item in it the command returns,
\* with it the offer is composed (await bank.get_currency_name) up to
\* "async with self.get_lock(ctx.author)"
trade_load(t) ==
    /\ lpc[t] = "trade_load"
    /\ IF store[lctx[t].user].backpack = 0
       THEN End(t, "noitem")
       ELSE /\ Step(t, "trade_acquire")
            /\ lctx' = [lctx EXCEPT ![t].c = from_json(lctx[t].user)]
    /\ UNCHANGED <<locks, store, lockFrame>>

\* the author's lock is acquired; the offer is sent and the buyer's reaction
\* awaited for 60 seconds
trade_acquire(t) ==
    /\ lpc[t] = "trade_acquire"
    /\ ~Locked(lctx[t].user)
    /\ locks' = Acquire(locks, lctx[t].user, t)
    /\ Step(t, "trade_offer")
    /\ UNCHANGED <<lctx, store, lockFrame>>

\* asyncio.TimeoutError, or the buyer reacts with No, or the buyer reacts with
\* Yes and bank.can_spend(buyer, asking) is false: the "async with" block is
\* left and the author's lock released
trade_decline(t) ==
    /\ lpc[t] = "trade_offer"
    /\ locks' = Release(locks, lctx[t].user)
    /\ End(t, "declined")
    /\ UNCHANGED <<store, lockFrame>>

\* the buyer reacts with Yes and can spend the asking price:
\* "buy_user = await Character.from_json(self.config, buyer, ...)"
trade_accept(t) ==
    /\ lpc[t] = "trade_offer"
    /\ Step(t, "trade_load_buyer")
    /\ UNCHANGED <<lctx, locks, store, lockFrame>>

\* the buyer's sheet is loaded, the credits are transferred (awaited), the
\* item is taken out of the author's loaded sheet; then
\* "async with self.get_lock(buyer)"
trade_load_buyer(t) ==
    /\ lpc[t] = "trade_load_buyer"
    /\ lctx' = [lctx EXCEPT ![t].buy_user = from_json(lctx[t].buyer),
                            ![t].c.backpack = @ - 1]
    /\ Step(t, "trade_lock_buyer")
    /\ UNCHANGED <<locks, store, lockFrame>>

\* the buyer's lock is acquired, the item is put into the buyer's loaded
\* sheet; "await self.config.user(buyer).set(...)"
trade_acquire_buyer(t) ==
    /\ lpc[t] = "trade_lock_buyer"
    /\ ~Locked(lctx[t].buyer)
    /\ locks' = Acquire(locks, lctx[t].buyer, t)
    /\ lctx' = [lctx EXCEPT ![t].buy_user.backpack = @ + 1]
    /\ Step(t, "trade_persist_buyer")
    /\ UNCHANGED <<store, lockFrame>>

\* the buyer's sheet is set; "await self.config.user(ctx.author).set(...)"
trade_persist_buyer(t) ==
    /\ lpc[t] = "trade_persist_buyer"
    /\ store' = Persist(store, lctx[t].buyer, lctx[t].buy_user)
    /\ Step(t, "trade_persist_author")
    /\ UNCHANGED <<lctx, locks, lockFrame>>

\* the author's sheet is set; both "async with" blocks are left
trade_persist_author(t) ==
    /\ lpc[t] = "trade_persist_author"
    /\ store' = Persist(store, lctx[t].user, lctx[t].c)
    /\ locks' = Release(Release(locks, lctx[t].buyer), lctx[t].user)
    /\ End(t, "traded")
    /\ UNCHANGED lockFrame

\* ---- the reward engine
\* _add_rewards: "if not lock.locked(): await lock.acquire()", then
\* "c = await Character.from_json(...)"
\* _adventure hands a participant's reward to _add_rewards
add_rewards(t, u) ==
    /\ Invoke(t, "rewards", u, 0, "rewards_load")
    /\ locks' = IF Locked(u) THEN locks ELSE Acquire(locks, u, t)
    /\ UNCHANGED <<store, lockFrame>>

\* from_json raised: "lock.release(); return".  Otherwise the sheet is
\* loaded, the experience added (await bank.deposit_credits) up to
\* "await self.config.user(user).set(...)"
rewards_load(t, ok) ==
    /\ lpc[t] = "rewards_load"
    /\ LET u == lctx[t].user IN
       IF ~ok
       THEN End(t, "error") /\ locks' = Release(locks, u)
       ELSE /\ Step(t, "rewards_persist")
            /\ lctx' = [lctx EXCEPT ![t].c = [from_json(u) EXCEPT !.exp = @ + 1]]
            /\ UNCHANGED locks
    /\ UNCHANGED <<store, lockFrame>>

\* the sheet is set; "finally: lock.release()"; _negaverse goes on with
\* "if msg: await smart_embed(...)"
rewards_persist(t) ==
    /\ lpc[t] = "rewards_persist"
    /\ store' = Persist(store, lctx[t].user, lctx[t].c)
    /\ locks' = Release(locks, lctx[t].user)
    /\ IF lctx[t].op = "negaverse"
       THEN Step(t, "nega_leave") /\ lctx' = [lctx EXCEPT ![t].c = NoSheet]
       ELSE End(t, "rewarded")
    /\ UNCHANGED lockFrame

\* ---- negaverse
\* the offering is checked against the balance (await bank.get_balance,
\* await bank.get_currency_name); then "await lock.acquire()"
negaverse(t, u) ==
    /\ IF cog_before_invoke(u)
       THEN Invoke(t, "negaverse", u, 0, "nega_acquire")
       ELSE Refuse(t, "negaverse", u, 0)
    /\ UNCHANGED <<locks, store, lockFrame>>

\* the lock is acquired; the question is sent and the reaction awaited
nega_acquire(t) ==
    /\ lpc[t] = "nega_acquire"
    /\ ~Locked(lctx[t].user)
    /\ locks' = Acquire(locks, lctx[t].user, t)
    /\ Step(t, "nega_offer")
    /\ UNCHANGED <<lctx, store, lockFrame>>

\* asyncio.TimeoutError: "await self._clear_react(nv_msg); lock.release();
\* return" and the finally clause
nega_timeout(t) ==
    /\ lpc[t] = "nega_offer"
    /\ locks' = Release(locks, lctx[t].user)
    /\ End(t, "timeout")
    /\ UNCHANGED <<store, lockFrame>>

\* the reaction is No, or entry_roll is 1: "lock.release()", then "return
\* await ..." suspends before the finally clause
nega_refused(t) ==
    /\ lpc[t] = "nega_offer"
    /\ locks' = Release(locks, lctx[t].user)
    /\ Step(t, "nega_leave")
    /\ UNCHANGED <<lctx, store, lockFrame>>

\* the offering is taken; "c = await Character.from_json(...)"
nega_enter(t) ==
    /\ lpc[t] = "nega_offer"
    /\ Step(t, "nega_load")
    /\ UNCHANGED <<lctx, locks, store, lockFrame>>

\* from_json raised, or the roll is lost: the lock is released on the way
\* out.  The roll is won: "lock.release()" and _add_rewards is entered.
nega_load(t, outcome) ==
    /\ lpc[t] = "nega_load"
    /\ LET u == lctx[t].user IN
       IF outcome = "win"
       THEN /\ locks' = Acquire(locks, u, t)
            /\ Step(t, "rewards_load")
            /\ UNCHANGED lctx
       ELSE /\ locks' = Release(locks, u)
            /\ End(t, outcome)
    /\ UNCHANGED <<store, lockFrame>>

\* "finally: lock = self.get_lock(ctx.author); lock.release()"
nega_leave(t) ==
    /\ lpc[t] = "nega_leave"
    /\ locks' = Release(locks, lctx[t].user)
    /\ End(t, "left")
    /\ UNCHANGED <<store, lockFrame>>

\* ---- the counters of _result
\* "for user in action: c = await Character.from_json(...)"
result_counters(t, u) ==
    /\ Invoke(t, "counters", u, 0, "counters_load")
    /\ UNCHANGED <<locks, store, lockFrame>>

\* the sheet is loaded and its counters are raised;
\* "await self.config.user(user).set(await c.to_json(self.config))"
counters_load(t) ==
    /\ lpc[t] = "counters_load"
    /\ lctx' = [lctx EXCEPT ![t].c = [from_json(lctx[t].user) EXCEPT !.adventures = @ + 1]]
    /\ Step(t, "counters_persist")
    /\ UNCHANGED <<locks, store, lockFrame>>

counters_persist(t) ==
    /\ lpc[t] = "counters_persist"
    /\ store' = Persist(store, lctx[t].user, lctx[t].c)
    /\ End(t, "counted")
    /\ UNCHANGED <<locks, lockFrame>>

\* ---- the ability reset at the end of _adventure
\* "for user in participants: async with self.get_lock(user)", reached from
\* the await of _add_rewards or smart_embed
adventure_reset(t, u) ==
    /\ Invoke(t, "reset", u, 0, "reset_acquire")
    /\ UNCHANGED <<locks, store, lockFrame>>

\* the participant's lock is acquired; "c = await Character.from_json(...)"
reset_acquire(t) ==
    /\ lpc[t] = "reset_acquire"
    /\ ~Locked(lctx[t].user)
    /\ locks' = Acquire(locks, lctx[t].user, t)
    /\ Step(t, "reset_load")
    /\ UNCHANGED <<lctx, store, lockFrame>>

\* from_json raised: "continue".  No ability is active (or the class is
\* Ranger): the block is left.  An ability is active: it is switched off and
\* "await self.config.user(user).set(...)"
reset_load(t, outcome) ==
    /\ lpc[t] = "reset_load"
    /\ LET u == lctx[t].user IN
       IF outcome = "active"
       THEN /\ Step(t, "reset_persist")
            /\ lctx' = [lctx EXCEPT ![t].c = from_json(u)]
            /\ UNCHANGED locks
       ELSE End(t, outcome) /\ locks' = Release(locks, u)
    /\ UNCHANGED <<store, lockFrame>>

\* the sheet is set and the "async with" block left
reset_persist(t) ==
    /\ lpc[t] = "reset_persist"
    /\ store' = Persist(store, lctx[t].user, lctx[t].c)
    /\ locks' = Release(locks, lctx[t].user)
    /\ End(t, "reset")
    /\ UNCHANGED lockFrame

NextLocks ==
    \/ \E t \in Ops, u \in Users : backpack_sell(t, u)
    \/ \E t \in Ops, ok \in BOOLEAN : sell_load(t, ok)
    \/ \E t \in Ops : sell_timeout(t)
    \/ \E t \in Ops, emoji \in {"one", "all", "allbutone", "cross"} :
           backpack_sell_button_action(t, emoji)
    \/ \E t \in Ops : sell_persist(t)
    \/ \E t \in Ops, a \in Users, b \in Users : backpack_trade(t, a, b)
    \/ \E t \in Ops : trade_load(t)
    \/ \E t \in Ops : trade_acquire(t)
    \/ \E t \in Ops : trade_decline(t)
    \/ \E t \in Ops : trade_accept(t)
    \/ \E t \in Ops : trade_load_buyer(t)
    \/ \E t \in Ops : trade_acquire_buyer(t)
    \/ \E t \in Ops : trade_persist_buyer(t)
    \/ \E t \in Ops : trade_persist_author(t)
    \/ \E t \in Ops, u \in Users : add_rewards(t, u)
    \/ \E t \in Ops, ok \in BOOLEAN : rewards_load(t, ok)
    \/ \E t \in Ops : rewards_persist(t)
    \/ \E t \in Ops, u \in Users : negaverse(t, u)
    \/ \E t \in Ops : nega_acquire(t)
    \/ \E t \in Ops : nega_timeout(t)
    \/ \E t \in Ops : nega_refused(t)
    \/ \E t \in Ops : nega_enter(t)
    \/ \E t \in Ops, outcome \in {"error", "lost", "win"} : nega_load(t, outcome)
    \/ \E t \in Ops : nega_leave(t)
    \/ \E t \in Ops, u \in Users : result_counters(t, u)
    \/ \E t \in Ops : counters_load(t)
    \/ \E t \in Ops : counters_persist(t)
    \/ \E t \in Ops, u \in Users : adventure_reset(t, u)
    \/ \E t \in Ops : reset_acquire(t)
    \/ \E t \in Ops, outcome \in {"error", "inactive", "active"} : reset_load(t, outcome)
    \/ \E t \in Ops : reset_persist(t)

SpecLocks == Init /\ [][NextLocks]_vars

\* ------------------------------------------------------ paid operations --
\* The skill reset and the purchase of a chest: the operations that take
\* their price out of the bank.
\* variables a paid operation never writes
shopFrame == <<sessions, heap, last_raids, monster_table, cooldown, on_cooldown, apc, actx,
               gc_alive, swept, hpc, hctx, restrict, react_messaged, rewards, call>>

\* the default of "normalcost"
normalcost == 5000

\* the first user has nothing in the bank, the others the price of a chest
InitPurse == bal = [u \in Users |-> IF u = 1 THEN 0 ELSE normalcost]

InitShop == InitAdv /\ InitReact /\ InitPurse /\ InitLocks /\ InitResolver /\ InitCall

\* "offering = min(int(bal / 5 + (c.total_int // 3)), 1000000000)", for a
\* character whose intelligence is that of the skill points
Offering(b, c) == Min((b \div 5) + (c.skill_int \div 3), 1000000000)

\* ---- skill reset
\* "if self.in_adventure(ctx): return ..."; allow_in_dm is awaited
skill(t, u) ==
    /\ u \notin all_users
    /\ IF cog_before_invoke(u)
       THEN Invoke(t, "skill", u, 0, "skill_acquire")
       ELSE Refuse(t, "skill", u, 0)
    /\ UNCHANGED <<locks, store, bal, shopFrame>>

\* "async with self.get_lock(ctx.author)"; "c = await Character.from_json(...)"
skill_acquire(t) ==
    /\ lpc[t] = "skill_acquire"
    /\ ~Locked(lctx[t].user)
    /\ locks' = Acquire(locks, lctx[t].user, t)
    /\ Step(t, "skill_load")
    /\ UNCHANGED <<lctx, store, bal, shopFrame>>

\* from_json raised, or the last reset is less than an hour ago: return.
\* Otherwise "bal = c.bal" (the balance as from_json read it), the offering is
\* worked out and the question put for 60 seconds.
skill_load(t, outcome) ==
    /\ lpc[t] = "skill_load"
    /\ LET u == lctx[t].user IN
       IF outcome = "ok"
       THEN /\ Step(t, "skill_ask")
            /\ lctx' = [lctx EXCEPT ![t].c = from_json(u),
                                    ![t].cost = Offering(bal[u], from_json(u))]
            /\ UNCHANGED locks
       ELSE End(t, outcome) /\ locks' = Release(locks, u)
    /\ UNCHANGED <<store, bal, shopFrame>>

\* asyncio.TimeoutError or No: return.  Yes: the points go back to the pool
\* and "await self.config.user(ctx.author).set(await c.to_json(...))"
skill_answer(t, answer) ==
    /\ lpc[t] = "skill_ask"
    /\ LET u == lctx[t].user
           c == lctx[t].c
       IN  IF answer = "yes"
           THEN /\ Step(t, "skill_persist")
                /\ lctx' = [lctx EXCEPT ![t].c.skill_pool = c.skill_pool + c.skill_int,
                                        ![t].c.skill_int = 0]
                /\ UNCHANGED locks
           ELSE End(t, answer) /\ locks' = Release(locks, u)
    /\ UNCHANGED <<store, bal, shopFrame>>

\* the sheet is set, then last_skill_reset; then
\* "await bank.withdraw_credits(ctx.author, offering)"
skill_persist(t) ==
    /\ lpc[t] = "skill_persist"
    /\ store' = Persist(store, lctx[t].user, lctx[t].c)
    /\ Step(t, "skill_withdraw")
    /\ UNCHANGED <<lctx, locks, bal, shopFrame>>

\* the bank takes the offering, or raises because the balance is short of
\* it; either way the "async with" block is left
skill_withdraw(t) ==
    /\ lpc[t] = "skill_withdraw"
    /\ LET u == lctx[t].user IN
       /\ IF bal[u] >= lctx[t].cost
          THEN bal' = [bal EXCEPT ![u] = @ - lctx[t].cost] /\ End(t, "reset")
          ELSE UNCHANGED bal /\ End(t, "raised")
       /\ locks' = Release(locks, u)
    /\ UNCHANGED <<store, shopFrame>>

\* ---- buyloot
\* a chest of the normal kind is ordered in a channel other than the
\* adventure's; the prices are read from the config
buyloot(t, u) ==
    /\ IF cog_before_invoke(u)
       THEN Invoke(t, "buyloot", u, 0, "buy_balance")
       ELSE Refuse(t, "buyloot", u, 0)
    /\ UNCHANGED <<locks, store, bal, shopFrame>>

\* "userbalance = await bank.get_balance(ctx.author)"
buy_balance(t) ==
    /\ lpc[t] = "buy_balance"
    /\ lctx' = [lctx EXCEPT ![t].userbalance = bal[lctx[t].user]]
    /\ Step(t, "buy_acquire")
    /\ UNCHANGED <<locks, store, bal, shopFrame>>

\* "async with self.get_lock(user)"; "c = await Character.from_json(...)"
buy_acquire(t) ==
    /\ lpc[t] = "buy_acquire"
    /\ ~Locked(lctx[t].user)
    /\ locks' = Acquire(locks, lctx[t].user, t)
    /\ Step(t, "buy_load")
    /\ UNCHANGED <<lctx, store, bal, shopFrame>>

\* from_json raised: return.  "total_cost = normal_cost * number; if
\* userbalance >= total_cost: await bank.withdraw_credits(...)", else
\* "Insufficient Balance" and nothing is set
buy_load(t, ok) ==
    /\ lpc[t] = "buy_load"
    /\ LET u == lctx[t].user IN
       IF ~ok
       THEN End(t, "error") /\ locks' = Release(locks, u)
       ELSE IF lctx[t].userbalance >= normalcost
            THEN /\ Step(t, "buy_withdraw")
                 /\ lctx' = [lctx EXCEPT ![t].c = from_json(u), ![t].cost = normalcost]
                 /\ UNCHANGED locks
            ELSE End(t, "insufficient") /\ locks' = Release(locks, u)
    /\ UNCHANGED <<store, bal, shopFrame>>

\* the bank takes the price and "c.treasure[0] += number", or the bank
\* raises because the balance has meanwhile fallen short of the price
buy_withdraw(t) ==
    /\ lpc[t] = "buy_withdraw"
    /\ LET u == lctx[t].user IN
       IF bal[u] >= lctx[t].cost
       THEN /\ bal' = [bal EXCEPT ![u] = @ - lctx[t].cost]
            /\ lctx' = [lctx EXCEPT ![t].c.treasure = @ + 1]
            /\ Step(t, "buy_persist")
            /\ UNCHANGED locks
       ELSE UNCHANGED bal /\ End(t, "raised") /\ locks' = Release(locks, u)
    /\ UNCHANGED <<store, shopFrame>>

\* "if successful: await self.config.user(user).set(...)"
buy_persist(t) ==
    /\ lpc[t] = "buy_persist"
    /\ store' = Persist(store, lctx[t].user, lctx[t].c)
    /\ locks' = Release(locks, lctx[t].user)
    /\ End(t, "bought")
    /\ UNCHANGED <<bal, shopFrame>>

NextShop ==
    \/ \E t \in Ops, u \in Users : skill(t, u)
    \/ \E t \in Ops : skill_acquire(t)
    \/ \E t \in Ops, outcome \in {"error", "recent", "ok"} : skill_load(t, outcome)
    \/ \E t \in Ops, answer \in {"timeout", "no", "yes"} : skill_answer(t, answer)
    \/ \E t \in Ops : skill_persist(t)
    \/ \E t \in Ops : skill_withdraw(t)
    \/ \E t \in Ops, u \in Users : buyloot(t, u)
    \/ \E t \in Ops : buy_balance(t)
    \/ \E t \in Ops : buy_acquire(t)
    \/ \E t \in Ops, ok \in BOOLEAN : buy_load(t, ok)
    \/ \E t \in Ops : buy_withdraw(t)
    \/ \E t \in Ops : buy_persist(t)

SpecShop == InitShop /\ [][NextShop]_vars

\* ---- reactions with a session open in every group
\* The state once a start request has run up to its countdown in every
\* group: task g hosts the session of group g.
InitBoth ==
    /\ sessions = [g \in Guilds |-> g]
    /\ heap = [g \in Guilds |->
                  [GameSession("normal", "normal") EXCEPT !.message_id = g]]
    /\ last_raids = << >>
    /\ monster_table = LoadedMonsters
    /\ cooldown = [g \in Guilds |-> SinceCap]
    /\ on_cooldown = [g \in Guilds |-> TRUE]
    /\ apc = [t \in AdvTasks |-> IF t \in Guilds THEN "wait" ELSE "idle"]
    /\ actx = [t \in AdvTasks |->
                  IF t \in Guilds
                  THEN [NoCtx EXCEPT !.guild = t, !.sid = t, !.left = Timer("normal")]
                  ELSE NoCtx]
    /\ gc_alive = TRUE
    /\ swept = FALSE

InitRestrict == InitBoth /\ InitReact /\ InitBank /\ InitLocks /\ InitResolver /\ InitCall

\* the reactions tried: the first and the last of the five controls
Pressed == {ROSTERS[1], ROSTERS[Len(ROSTERS)]}

NextRestrict ==
    \/ \E h \in Handlers, g \in Guilds, u \in Users, a \in Pressed :
           on_reaction_add(h, g, u, a)
    \/ HandlerStep
    \/ \E h \in Handlers : handle_notify(h)

SpecRestrict == InitRestrict /\ [][NextRestrict]_vars

\* ---- reactions while the bank changes
\* buyloot run from its call to its return, ordered by u in a channel other
\* than the adventure's: the price is taken out of the balance and the chest
\* added to the sheet
buyloot_elsewhere(u) ==
    /\ cog_before_invoke(u)
    /\ bal[u] >= normalcost
    /\ bal' = [bal EXCEPT ![u] = @ - normalcost]
    /\ store' = [store EXCEPT ![u].treasure = @ + 1]
    /\ UNCHANGED <<heap, hpc, hctx, restrict, react_messaged, sessions, last_raids,
                   monster_table, cooldown, on_cooldown, apc, actx, gc_alive, swept,
                   locks, lpc, lctx, rewards, call>>

InitVeto == InitOpen /\ InitReact /\ InitPurse /\ InitLocks /\ InitResolver /\ InitCall

\* reactions handled as they arrive, by users who may spend their currency
\* in the meantime
NextVeto ==
    \/ \E h \in Handlers, g \in Guilds, u \in Users, a \in Range(ROSTERS) :
           on_reaction_add(h, g, u, a)
    \/ \E h \in Handlers : handle_funds(h)
    \/ \E h \in Handlers : handle_unreact(h)
    \/ \E h \in Handlers : handle_restrict(h)
    \/ \E h \in Handlers : handler_return(h)
    \/ \E u \in Users : buyloot_elsewhere(u)

SpecVeto == InitVeto /\ [][NextVeto]_vars

\* ---- the outcome history
\* how many results group g has recorded: every call of record numbers its
\* entry, in "amount", with the count of the group's calls so far
Recorded(raids, g) ==
    IF g \in DOMAIN raids /\ raids[g] # <<>> THEN raids[g][Len(raids[g])].amount ELSE 0

\* a call of add_result for group g
record(g, main_action, success) ==
    /\ Recorded(last_raids, g) < MaxRecords
    /\ last_raids' = add_result(last_raids, g,
                         [session |-> 0, main_action |-> main_action,
                          amount |-> Recorded(last_raids, g) + 1,
                          num_ppl |-> 1, success |-> success])
    /\ UNCHANGED <<sessions, heap, monster_table, cooldown, on_cooldown, apc, actx,
                   gc_alive, swept, cogFrame>>

InitRecord == Init

NextRecord == \E g \in Guilds : record(g, "attack", TRUE)

SpecRecord == InitRecord /\ [][NextRecord]_vars

\* ---- the difficulty band
\* Fractions are pairs <<p, q>> with q > 0, standing for p / q.
Frac(p, q) == <<p, q>>
Times(x, p, q) == <<x[1] * p, x[2] * q>>
Leq(x, y) == x[1] * y[2] <= y[1] * x[2]
Whole(n) == <<n, 1>>

\* SOLO_RAID_SCALE = 0.25, in quarters
SOLO_RAID_SCALE == 1

\* a raid adds nothing for being solo
solo_extra_none(raid) == 0

\* "if raid["num_ppl"] == 1: ... += raid["amount"] * SOLO_RAID_SCALE"
solo_extra(raid) == IF raid.num_ppl = 1 THEN raid.amount * SOLO_RAID_SCALE ELSE 0

\* "dmg_amount += raid["amount"]; if raid["num_ppl"] == 1: dmg_amount +=
\* raid["amount"] * SOLO_RAID_SCALE" over the raids of one main action, in
\* quarters
RECURSIVE Tallied(_, _)
Tallied(raids, attack) ==
    IF raids = <<>> THEN 0
    ELSE LET raid == Head(raids)
             mine == (raid.main_action = "attack") = attack
         IN  (IF ~mine THEN 0
              ELSE 4 * raid.amount
                   + solo_extra(raid))
             + Tallied(Tail(raids), attack)

\* AdventureResults.get_stat_range: the dict returned.  With no history the
\* function returns early, with three keys.
get_stat_range(all_raids, g) ==
    LET raids == IF g \in DOMAIN all_raids THEN all_raids[g] ELSE <<>>
    IN  IF Len(raids) = 0
        THEN [stat_type |-> "hp", min_stat |-> Whole(0), max_stat |-> Whole(0)]
        ELSE LET num_attack  == Cardinality({i \in DOMAIN raids : raids[i].main_action = "attack"})
                 num_talk    == Len(raids) - num_attack
                 dmg_amount  == Tallied(raids, TRUE)
                 talk_amount == Tallied(raids, FALSE)
                 num_wins    == Cardinality({i \in DOMAIN raids : raids[i].success})
                 raid_count  == Len(raids)
                 talks       == dmg_amount < talk_amount
                 avg_amount  == IF talks THEN Frac(talk_amount, 4 * num_talk)
                                ELSE IF num_attack > 0 THEN Frac(dmg_amount, 4 * num_attack)
                                ELSE Whole(0)
                 losing      == 2 * num_wins < raid_count
             IN  [stat_type   |-> IF talks THEN "dipl" ELSE "hp",
                  min_stat    |-> IF losing THEN Times(avg_amount, num_wins, raid_count)
                                  ELSE Times(avg_amount, 3, 4),
                  max_stat    |-> IF losing THEN Times(avg_amount, 3, 2)
                                  ELSE Times(avg_amount, 2, 1),
                  win_percent |-> Frac(num_wins, raid_count)]

\* "if stat_range["max_stat"] > 0"
Banded(stat_range) == stat_range.max_stat[1] > 0

\* get_challenge: "main_stat = stats["hp"] if (stat_range["stat_type"] ==
\* "attack") else stats["dipl"]"
main_stat(stats, stat_range) ==
    IF stat_range.stat_type = "attack" THEN stats.hp ELSE stats.dipl

\* get_challenge: appropriate_range for a monster with the given stats, for
\* an author whose highest of att, int and cha is best
appropriate_range(stats, stat_range, best) ==
    IF Banded(stat_range)
    THEN /\ Leq(Times(stat_range.min_stat, 3, 4), Whole(main_stat(stats, stat_range)))
         /\ Leq(Whole(main_stat(stats, stat_range)), Times(stat_range.max_stat, 6, 5))
    ELSE Max(stats.hp, stats.dipl) <= best * 5

\* get_challenge: the monsters put into possible_monsters
possible_monsters(monsters, stat_range, best) ==
    {m \in DOMAIN monsters : appropriate_range(monsters[m], stat_range, best)}

\* the records tried: an attack that dealt 4 or a talk that scored 100, alone
\* or in a party of two, won or lost
RAIDS ==
    {r \in [session : {0}, main_action : {"attack", "talk"}, amount : {4, 100},
            num_ppl : {1, 2}, success : BOOLEAN] :
        r.amount = IF r.main_action = "attack" THEN 4 ELSE 100}

\* att, int and cha of the author of the start request, at most
BEST == {1, 3}

\* a call of add_result for a group whose history is short
add_raid(g, raid) ==
    /\ Len(IF g \in DOMAIN last_raids THEN last_raids[g] ELSE <<>>) < MaxHistory
    /\ last_raids' = add_result(last_raids, g, raid)
    /\ UNCHANGED <<sessions, heap, monster_table, cooldown, on_cooldown, apc, actx,
                   gc_alive, swept, cogFrame>>

\* a first call of get_stat_range for a group: "self._last_raids[ctx.guild.id] = []"
stat_range_read(g) ==
    /\ g \notin DOMAIN last_raids
    /\ last_raids' = Touch(last_raids, g)
    /\ UNCHANGED <<sessions, heap, monster_table, cooldown, on_cooldown, apc, actx,
                   gc_alive, swept, cogFrame>>

InitStats == Init

NextStats ==
    \/ \E g \in Starters, raid \in RAIDS : add_raid(g, raid)
    \/ \E g \in Guilds : stat_range_read(g)

SpecStats == InitStats /\ [][NextStats]_vars

\* ------------------------------------------------- characters and items --
\* The methods of Character and Item, called on characters and items drawn
\* from small sets.
\* variables a method of a character never writes
sheetFrame == <<sessions, heap, last_raids, monster_table, cooldown, on_cooldown, bal,
                apc, actx, gc_alive, swept, hpc, hctx, restrict, react_messaged,
                locks, store, lpc, lctx, rewards>>

Called(fn, arg, val) ==
    /\ call' = [fn |-> fn, arg |-> arg, val |-> val]
    /\ UNCHANGED sheetFrame

\* all sequences over S of at most n entries
SeqUpTo(S, n) == UNION {[1..k -> S] : k \in 0..n}

\* ---- rebirth
\* An item as Item.to_json writes it, as far as rebirth reads it: "degrade"
\* is written for legendary and event items only, and from_json makes it 3
\* for every other rarity.
DEGRADES == {-1, 0, 3}
BACKPACK_ITEMS ==
    {i \in [rarity : {"rare", "set", "forged", "legendary", "event"}, degrade : DEGRADES] :
        i.rarity \notin {"legendary", "event"} => i.degrade = 3}

HasDegrade(i) == i.rarity \in {"legendary", "event"}

\* the item is no longer in the backpack
Gone == [rarity |-> "none", degrade |-> 0]

\* Character.rebirth, the loop over the backpack from the n-th item on, with
\* "forged" forged items kept so far: what becomes of each item
RECURSIVE RebirthLoop(_, _, _, _)
RebirthLoop(backpack, n, rebirths, forged) ==
    IF n > Len(backpack) THEN <<>>
    ELSE LET i == backpack[n]
             rest(f) == RebirthLoop(backpack, n + 1, rebirths, f)
         IN  IF HasDegrade(i) /\ i.degrade = -1 /\ i.rarity = "event"
             THEN <<i>> \o rest(forged)
             ELSE IF i.rarity \in {"set", "forged"}
             THEN IF i.rarity = "forged"
                  THEN IF forged > 0 THEN <<Gone>> \o rest(forged)
                       ELSE <<i>> \o rest(forged + 1)
                  ELSE <<i>> \o rest(forged)
             ELSE IF rebirths < 50 /\ i.rarity \in {"legendary", "event"}
             THEN IF HasDegrade(i)
                  THEN IF i.degrade - 1 >= 0
                       THEN <<[i EXCEPT !.degrade = @ - 1]>> \o rest(forged)
                       ELSE <<Gone>> \o rest(forged)
                  ELSE <<Gone>> \o rest(forged)
             ELSE <<Gone>> \o rest(forged)

\* "tresure = [0, 0, 0, 0, 0]" and what is added to it
Tresure(rebirths) ==
    <<IF rebirths > 0 THEN Max(rebirths, 0) ELSE 0,
      IF rebirths >= 5 THEN Max(rebirths \div 5, 0) ELSE 0,
      IF rebirths >= 10 THEN Max(rebirths \div 10, 0) ELSE 0,
      IF rebirths >= 15 THEN Max(rebirths \div 15, 0) ELSE 0,
      0>>

\* Character.rebirth(): the dict returned, which the command persists as the
\* character's sheet; "fate" lists what became of each item of the backpack
character_rebirth(c) ==
    LET rebirths == c.rebirths + 1
    IN  [exp |-> 0, treasure |-> Tresure(rebirths), rebirths |-> rebirths,
         lvl |-> 1, fate |-> RebirthLoop(c.backpack, 1, rebirths, 0)]

REBIRTHS == {0, 4, 12, 14, 48, 49}
TREASURES == {<<0, 0, 0, 0, 0>>, <<2, 1, 0, 0, 1>>}

\* the rebirth command has loaded a character at its max level and sets
\* what c.rebirth() returns
rebirth(c) == Called("rebirth", c, character_rebirth(c))

\* -- Character.get_max_level
REBIRTH_LVL == 20
REBIRTH_STEP == 10
LEVEL_CAP == 10000

\* what one pass of the loop of get_max_level adds when `rebirths` is the
\* count it has walked down to
LevelStep_flat(rebirths) == REBIRTH_STEP

LevelStep(rebirths) ==
    IF rebirths >= 20 THEN REBIRTH_STEP
    ELSE IF rebirths >= 10 THEN 10
    ELSE 5

\* what the passes with the counts lo..hi add together; the loop makes one
\* pass for each count from the total down to 1 (the range is halved to add
\* the passes up, the order of the additions does not change the sum)
RECURSIVE MaxLevelLoop(_, _)
MaxLevelLoop(lo, hi) ==
    IF lo > hi THEN 0
    ELSE IF lo = hi THEN LevelStep(lo)
    ELSE MaxLevelLoop(lo, (lo + hi) \div 2) + MaxLevelLoop((lo + hi) \div 2 + 1, hi)

get_max_level(self_rebirths) ==
    LET rebirths == Max(self_rebirths, 0)
        maxlevel == IF rebirths = 0 THEN 5 ELSE REBIRTH_LVL
    IN  Min(maxlevel + MaxLevelLoop(1, rebirths), LEVEL_CAP)

\* rebirth counts a sheet can hold: none, the three bands and both sides of
\* the cap
MaxRebirths == 30
REBIRTH_COUNTS == (-1 .. MaxRebirths) \cup {1002, 1003, 1004}

max_level(r) == Called("get_max_level", r, get_max_level(r))

\* -- the level a character reaches with its experience (_add_rewards)
MaxRoot == 10

Pow7(n) == n * n * n * n * n * n * n

\* the largest n with n ^ 3.5 <= exp, that is n ^ 7 <= exp ^ 2
root35_floor(exp) ==
    CHOOSE n \in 0..MaxRoot : Pow7(n) <= exp * exp /\ exp * exp < Pow7(n + 1)

root35_exact(exp) == root35_floor(exp)

\* int(exp ** (1 / 3.5)) in double precision: 1 / 3.5 is rounded to a double
\* just below 2/7, so the power of an exp that is exactly n ^ 3.5 (128, 2187,
\* 16384, ...) comes out just below n and int() gives n - 1
root35(exp) ==
    LET n == root35_floor(exp)
    IN  IF n > 1 /\ Pow7(n) = exp * exp THEN n - 1 ELSE n

\* calculate_sp counts in halves of a point below level 100
RECURSIVE HalfPoints(_, _)
HalfPoints(lvl_end, left) ==
    IF left = 0 THEN 0
    ELSE (IF lvl_end >= 300 THEN 2
          ELSE IF lvl_end >= 200 THEN 10
          ELSE IF lvl_end >= 100 THEN 2
          ELSE IF lvl_end >= 0 THEN 1
          ELSE 0) + HalfPoints(lvl_end - 1, left - 1)

calculate_sp(lvl_end, rebirths) == (rebirths * 20 + HalfPoints(lvl_end, lvl_end)) \div 2

\* the character _add_rewards loads: Character.__init__ caps the stored
\* level at the max level
Loaded(c) ==
    LET maxlevel == get_max_level(c.rebirths)
    IN  [c EXCEPT !.lvl = IF @ < maxlevel THEN @ ELSE maxlevel]

add_rewards_level(sheet, exp) ==
    LET c         == Loaded(sheet)
        maxlevel  == get_max_level(c.rebirths)
        c_exp     == c.exp + exp
        lvl_start == c.lvl
        root      == root35(Max(c_exp, 0))
        lvl_end   == IF root < maxlevel THEN root ELSE maxlevel
        pool      == Max(c.pool, 0) + calculate_sp(lvl_end, c.rebirths)
                                    - calculate_sp(lvl_start, c.rebirths)
    IN  IF lvl_start < lvl_end
        THEN [c EXCEPT !.exp = c_exp, !.lvl = lvl_end, !.pool = pool]
        ELSE [c EXCEPT !.exp = c_exp]

\* sheets the store can hold: a character that has earned its level with
\* its experience, and one whose level an owner has set (devrebirth leaves
\* the experience at 0)
EXPERIENCES == {0, 100, 120, 900, 2000}
GAINS == {0, 8, 28, 100, 187}
LEVELS == {1, 6, 20}
EARLY_REBIRTHS == {0, 1}
SHEETS ==
    {[exp |-> e, rebirths |-> r, lvl |-> Max(1, Min(root35(e), get_max_level(r))),
      pool |-> 0] : e \in EXPERIENCES, r \in EARLY_REBIRTHS}
    \cup {[exp |-> 0, rebirths |-> 1, lvl |-> l, pool |-> 0] : l \in LEVELS}

level_up(sheet, exp) ==
    Called("_add_rewards", [exp |-> exp, c |-> sheet], add_rewards_level(sheet, exp))

\* -- the stats of a character (Character.__init__)
MaxEquipped == 2

MULTS == {"cpmult", "xpmult", "statmult"}

\* what a bonus adds to base[key]; multipliers are counted in hundredths
Delta(key, value) ==
    IF key \notin MULTS THEN value
    ELSE IF value > 100 THEN value - 100
    ELSE IF value >= 0 THEN 0 - (100 - value)
    ELSE 0

\* the loop over the bonuses of one set, from the n-th on: what they add to
\* base[key] when `parts` items of the set are equipped
RECURSIVE BonusLoop(_, _, _, _)
BonusLoop(set_bonuses, n, parts, key) ==
    IF n > Len(set_bonuses) THEN 0
    ELSE LET bonus          == set_bonuses[n]
             required_parts == IF "parts" \in DOMAIN bonus THEN bonus.parts ELSE 100
         IN  (IF required_parts > parts THEN 0
              ELSE IF key \notin DOMAIN bonus THEN 0
              ELSE Delta(key, bonus[key]))
             + BonusLoop(set_bonuses, n + 1, parts, key)

\* set_names: for each set among the equipped items the parts its first
\* item asks for and the number of its items, an item name counted once
Members(equipped, s) == {i \in DOMAIN equipped : equipped[i].set = s}
PartsAsked(equipped, s) ==
    equipped[CHOOSE i \in Members(equipped, s) : \A j \in Members(equipped, s) : i <= j].parts
PartsOwned(equipped, s) == Cardinality({equipped[i].name : i \in Members(equipped, s)})

valid_sets(equipped) ==
    {s \in {equipped[i].set : i \in DOMAIN equipped} \ {""} :
        PartsOwned(equipped, s) >= PartsAsked(equipped, s)}

\* the loop over valid_sets
RECURSIVE SetsLoop(_, _, _, _)
SetsLoop(sets, equipped, SET_BONUSES, key) ==
    IF sets = {} THEN 0
    ELSE LET s == CHOOSE x \in sets : TRUE
             set_bonuses == IF s \in DOMAIN SET_BONUSES THEN SET_BONUSES[s] ELSE <<>>
         IN  BonusLoop(set_bonuses, 1, PartsOwned(equipped, s), key)
             + SetsLoop(sets \ {s}, equipped, SET_BONUSES, key)

get_set_bonus(equipped, SET_BONUSES) ==
    LET base(key) == (IF key \in MULTS THEN 100 ELSE 0)
                     + SetsLoop(valid_sets(equipped), equipped, SET_BONUSES, key)
    IN  [dex |-> base("dex"), att |-> base("att"), cha |-> base("cha"),
         int |-> base("int"), luck |-> base("luck"),
         cpmult   |-> Max(0, base("cpmult")),
         xpmult   |-> Max(0, base("xpmult")),
         statmult |-> Max(0 - 25, base("statmult"))]

\* the loop of get_stat_value over range(rebirths)
RECURSIVE ExtraLoop(_, _)
ExtraLoop(rebirths, left) ==
    IF left <= 0 THEN 0
    ELSE (IF rebirths >= 30 THEN 3
          ELSE IF rebirths >= 20 THEN 5
          ELSE IF rebirths >= 10 THEN 1
          ELSE 2) + ExtraLoop(rebirths - 1, left - 1)

RECURSIVE GearSum(_, _, _)
GearSum(equipped, n, stat) ==
    IF n > Len(equipped) THEN 0
    ELSE equipped[n][stat] + GearSum(equipped, n + 1, stat)

\* int() of a number of hundredths
Trunc100(x) == IF x >= 0 THEN x \div 100 ELSE 0 - ((0 - x) \div 100)

get_stat_value(sheet, gear_set_bonus, stat) ==
    LET extrapoints == (sheet.rebirths \div 10) * 5 + ExtraLoop(sheet.rebirths, sheet.rebirths)
        stats       == extrapoints + GearSum(sheet.equipped, 1, stat)
    IN  Trunc100(stats * gear_set_bonus.statmult) + gear_set_bonus[stat]

Clamped_not(value) == value

Clamped(value) == Min(value, 5)

\* Character.__init__, from get_set_bonus to total_cha
Character(sheet) ==
    LET gear_set_bonus == get_set_bonus(sheet.equipped, sheet.SET_BONUSES)
        maxlevel == get_max_level(sheet.rebirths)
        lvl      == IF sheet.lvl < maxlevel THEN sheet.lvl ELSE maxlevel
        atmax    == lvl >= maxlevel /\ sheet.rebirths < 1
        stat(st) == LET value == get_stat_value(sheet, gear_set_bonus, st)
                    IN  IF atmax THEN Clamped(value) ELSE value
        self_skill == IF atmax THEN [pool |-> 0, att |-> 1, cha |-> 1, int |-> 1]
                      ELSE sheet.skill
    IN  [dex |-> stat("dex"), skill |-> self_skill, rebirths |-> sheet.rebirths,
         lvl |-> lvl, maxlevel |-> maxlevel, sets |-> valid_sets(sheet.equipped),
         att |-> stat("att"), cha |-> stat("cha"), int |-> stat("int"),
         luck |-> stat("luck"), gear_set_bonus |-> gear_set_bonus,
         total_att |-> stat("att") + self_skill.att,
         total_int |-> stat("int") + self_skill.int,
         total_cha |-> stat("cha") + self_skill.cha]

\* items to equip: a plain item, the two parts of the set Alpha and the one
\* part of the set Beta
GEAR ==
    {[dex |-> 7, name |-> "sword", parts |-> 0, set |-> "",
      att |-> 9, cha |-> 0 - 2, int |-> 6, luck |-> 8],
     [dex |-> 1, name |-> "Alpha Helm", parts |-> 2, set |-> "Alpha",
      att |-> 2, cha |-> 6, int |-> 0, luck |-> 0],
     [dex |-> 4, name |-> "Alpha Boots", parts |-> 2, set |-> "Alpha",
      att |-> 1, cha |-> 1, int |-> 1, luck |-> 3],
     [dex |-> 0, name |-> "Beta Ring", parts |-> 1, set |-> "Beta",
      att |-> 0, cha |-> 3, int |-> 8, luck |-> 0]}

\* contents of the table of set bonuses (a data file read when the cog is
\* loaded): the multipliers are 0, 0.5, 1.25 and 1.5, which doubles hold
\* without rounding
BONUS_TABLES ==
    {[Alpha |-> <<[parts |-> 2, att |-> 3, cpmult |-> 125, xpmult |-> 125,
                   statmult |-> 150]>>,
      Beta  |-> <<[parts |-> 1, statmult |-> 125]>>],
     [Alpha |-> <<[parts |-> 1, statmult |-> 50],
                  [parts |-> 2, cpmult |-> 0, xpmult |-> 0, statmult |-> 0],
                  [cpmult |-> 50, xpmult |-> 0]>>,
      Beta  |-> <<[parts |-> 1, luck |-> 0 - 2, cpmult |-> 50, statmult |-> 50]>>]}

SKILLS == {[pool |-> 0, att |-> 0, cha |-> 0, int |-> 0],
           [pool |-> 3, att |-> 4, cha |-> 0, int |-> 2]}
STORED_LEVELS == {1, 5, 25}

load_character(sheet) == Called("Character", sheet, Character(sheet))

\* -- items: _genitem, Item.to_json and Item.from_json
\* A name is a sequence of characters.
LOWERCASE == <<"a", "g", "s">>
UPPERCASE == <<"A", "G", "S">>

Cased(ch) == ch \in Range(LOWERCASE) \cup Range(UPPERCASE)
upper(ch) ==
    IF ch \in Range(LOWERCASE)
    THEN UPPERCASE[CHOOSE i \in DOMAIN LOWERCASE : LOWERCASE[i] = ch] ELSE ch
lower(ch) ==
    IF ch \in Range(UPPERCASE)
    THEN LOWERCASE[CHOOSE i \in DOMAIN UPPERCASE : UPPERCASE[i] = ch] ELSE ch

\* str.lower
str_lower(name) == [i \in DOMAIN name |-> lower(name[i])]

\* str.title: a cased character is put in upper case after an uncased one
\* (or at the start) and in lower case after a cased one
str_title(name) ==
    [i \in DOMAIN name |->
        IF i = 1 \/ ~Cased(name[IF i = 1 THEN 1 ELSE i - 1])
        THEN upper(name[i]) ELSE lower(name[i])]

Get(data, key, default) == IF key \in DOMAIN data THEN data[key] ELSE default

\* Item.__init__: the name is kept for an event item, title-cased for a set
\* or legendary item and lower-cased otherwise
Item_init(kwargs) ==
    [kwargs EXCEPT !.name = IF kwargs.rarity = "event" THEN @
                            ELSE IF kwargs.rarity \in {"set", "legendary"} THEN str_title(@)
                            ELSE str_lower(@)]

\* get_item_db
get_item_db(rarity, TR_GEAR_SET) == IF rarity = "set" THEN TR_GEAR_SET ELSE << >>

\* Item.from_json of {name: data}.  The names here hold no markup (".", "[",
\* "{...:'"), so the rarity read from the name is "normal" and the name is
\* left as it is.
Item_from_json(name, data, TR_GEAR_SET) ==
    LET rarity == Get(data, "rarity", "normal")
        db     == get_item_db(rarity, TR_GEAR_SET)
        item   == IF DOMAIN db # {} /\ rarity = "set" /\ name \in DOMAIN db
                  THEN db[name] ELSE << >>
        read(key, default) == Get(item, key, Get(data, key, default))
        degrade == Get(data, "degrade", 3)
    IN  Item_init([dex |-> read("dex", 0), name |-> name, rarity |-> rarity,
                   degrade |-> IF rarity \in {"legendary", "event"} THEN degrade ELSE 3,
                   parts |-> read("parts", 0), set |-> read("set", ""),
                   att |-> read("att", 0), cha |-> read("cha", 0),
                   int |-> read("int", 0), luck |-> read("luck", 0),
                   slot |-> read("slot", << >>), owned |-> Get(data, "owned", 1)])

\* Item.to_json: {self.name: data}.  The stats of a set item are first
\* refreshed from the table and then left out of the data.
Item_to_json(self, TR_GEAR_SET) ==
    LET db      == get_item_db(self.rarity, TR_GEAR_SET)
        updated == IF DOMAIN db # {} /\ self.rarity = "set" /\ self.name \in DOMAIN db
                   THEN db[self.name] ELSE << >>
        now(key) == Get(updated, key, self[key])
    IN  [name |-> self.name,
         data |-> IF self.rarity = "legendary"
                  THEN [dex |-> self.dex, rarity |-> self.rarity,
                        degrade |-> self.degrade, att |-> self.att, cha |-> self.cha,
                        int |-> self.int, luck |-> self.luck, slot |-> self.slot,
                        owned |-> self.owned]
                  ELSE IF self.rarity = "set"
                  THEN [rarity |-> self.rarity, parts |-> now("parts"),
                        set |-> now("set"), slot |-> self.slot, owned |-> self.owned]
                  ELSE [dex |-> self.dex, rarity |-> self.rarity, att |-> self.att,
                        cha |-> self.cha, int |-> self.int, luck |-> self.luck,
                        slot |-> self.slot, owned |-> self.owned]]

\* rarities _genitem returns an item for: one it does not know is taken as
\* "normal"; for "event" the lookup PREFIX_CHANCE[rarity] raises
RARITIES == {"normal", "rare", "epic", "legendary"}

\* _genitem for a rarity other than "set": the name and the stats are put
\* together from the tables of prefixes, materials, equipment and suffixes
genitem(rarity, slot, name, stats) ==
    Item_init([dex |-> stats[4], name |-> name,
               rarity |-> IF rarity \in RARITIES THEN rarity ELSE "normal",
               degrade |-> 5, parts |-> 1, set |-> "",
               att |-> stats[1], cha |-> stats[2], int |-> stats[3], luck |-> stats[5],
               slot |-> IF slot = "two handed" THEN <<"left", "right">> ELSE <<slot>>,
               owned |-> 1])

\* _genitem for the rarity "set": an entry of the table
genitem_set(item_name, TR_GEAR_SET) ==
    Item_from_json(item_name, TR_GEAR_SET[item_name], TR_GEAR_SET)

\* contents of the tables (data files read when the cog is loaded)
ITEM_NAMES == {<<"a", "g">>, <<"a", " ", "s">>, <<"g", "'", "s">>}
ITEM_STATS == {<<0, 0, 0, 0, 0>>, <<3, 0 - 1, 2, 0, 1>>, <<1, 1, 1, 4, 2>>}
ITEM_SLOTS == {"head", "two handed"}
GENERATED == RARITIES \cup {"forged"}
SET_ENTRIES ==
    {[dex |-> 1, rarity |-> "set", parts |-> 2, set |-> "Alpha", att |-> 4,
      cha |-> 0, int |-> 2, luck |-> 0, slot |-> <<"head">>],
     [rarity |-> "set", parts |-> 1, set |-> "Beta", att |-> 7,
      slot |-> <<"left", "right">>]}
SET_NAMES == {<<"A", "g">>, <<"A", " ", "S">>, <<"G", "'", "s">>}
TR_GEAR_SETS == [SET_NAMES -> SET_ENTRIES]

\* the item is serialized and reconstructed from the serialized form
round_trip(item, TR_GEAR_SET) ==
    LET json == Item_to_json(item, TR_GEAR_SET)
    IN  Called("Item.from_json", [item |-> item, json |-> json],
               Item_from_json(json.name, json.data, TR_GEAR_SET))

InitSheet == Init

NextSheet ==
    \/ \E r \in GENERATED, sl \in ITEM_SLOTS, n \in ITEM_NAMES, st \in ITEM_STATS,
          t \in TR_GEAR_SETS :
           round_trip(genitem(r, sl, n, st), t)
    \/ \E t \in TR_GEAR_SETS, n \in SET_NAMES : round_trip(genitem_set(n, t), t)
    \/ \E l \in STORED_LEVELS, r \in EARLY_REBIRTHS, sk \in SKILLS,
          e \in SeqUpTo(GEAR, MaxEquipped), b \in BONUS_TABLES :
           load_character([equipped |-> e, skill |-> sk, rebirths |-> r, lvl |-> l,
                           SET_BONUSES |-> b])
    \/ \E c \in SHEETS, exp \in GAINS : level_up(c, exp)
    \/ \E r \in REBIRTH_COUNTS : max_level(r)
    \/ \E r \in REBIRTHS, t \in TREASURES, b \in SeqUpTo(BACKPACK_ITEMS, MaxItems) :
           rebirth([backpack |-> b, treasure |-> t, rebirths |-> r])

SpecSheet == InitSheet /\ [][NextSheet]_vars

\* --------------------------------------------------------- selling an item --
\* the range random.randint(base[0], base[1]) draws from, both ends included
base(rarity) ==
    IF rarity = "legendary" THEN <<1000, 2000>>
    ELSE IF rarity = "epic" THEN <<500, 750>>
    ELSE IF rarity = "rare" THEN <<250, 500>>
    ELSE <<10, 100>>

randint_beyond(lo, hi) == lo .. (hi + 1)

randint(lo, hi) == lo .. hi

\* Item.max_main_stat
max_main_stat(item) == Max(Max(item.att, item.int), Max(item.cha, 1))

\* Adventure._sell with the number random.randint has drawn
sell_price(c, item, drawn) ==
    LET p0 == drawn * max_main_stat(item)
        p1 == p0 + p0 * (IF c.total_cha >= 0 THEN c.total_cha \div 1000
                         ELSE 0 - ((0 - c.total_cha) \div 1000))
        p2 == IF c.luck > 0 THEN p1 + Round(p1 * c.luck, 1000)
              ELSE IF c.luck < 0
              THEN Max(p1 - Round(p1 * (0 - c.luck), 1000), 0)
              ELSE p1
        p3 == p2 + (IF c.rebirths >= 60 THEN Round(p2 * 2, 5)
                    ELSE Round(p2 * c.rebirths, 150))
    IN  Max(p3, base(item.rarity)[1])

\* the numbers drawn: both ends of the range and one in between
Drawn(rarity) ==
    LET all == randint(base(rarity)[1], base(rarity)[2])
    IN  {n \in all : \/ \A m \in all : n <= m
                     \/ \A m \in all : n >= m
                     \/ 2 * n = base(rarity)[1] + base(rarity)[2]}

SOLD_RARITIES == {"normal", "rare", "epic", "legendary"}
SOLD_STATS == {<<5, 0, 2>>, <<0, 0, 0>>}
SELLERS == {[rebirths |-> r, luck |-> l, total_cha |-> ch] :
               r \in {0, 15}, l \in {0 - 500, 0, 10}, ch \in {0, 2000}}

sell(c, item, drawn) ==
    Called("_sell", [c |-> c, item |-> item], sell_price(c, item, drawn))

InitSell == Init

NextSell ==
    \E c \in SELLERS, r \in SOLD_RARITIES, st \in SOLD_STATS :
        \E drawn \in Drawn(r) :
            sell(c, [rarity |-> r, att |-> st[1], cha |-> st[2], int |-> st[3]], drawn)

SpecSell == InitSell /\ [][NextSell]_vars

\* ------------------------------------------------- the rolls of a round ----
\* int(p / q) of Python for q > 0: towards zero
IntDiv(p, q) == IF p >= 0 THEN p \div q ELSE 0 - ((0 - p) \div q)

\* "crit_mod = max(c.dex, c.luck) + (c.total_att // 20)" and the lines after
\* it: the lowest and the highest number random.randint can give this
\* participant; stat is c.total_att on the fight roster and c.total_int on
\* the magic roster and for a prayer
roll_range(c, stat) ==
    LET crit_mod == Max(c.dex, c.luck) + (stat \div 20)
        mod == IF crit_mod >= 0 THEN Round(crit_mod, 10)
               ELSE 0 - Round(0 - crit_mod, 10)
        max_roll == IF c.rebirths >= 15 THEN 50 ELSE 20
    IN  IF c.rebirths < 15 /\ 15 < mod THEN <<16, 20>>
        ELSE IF mod + 1 > 45 THEN <<46, max_roll>>
        ELSE <<1 + mod, max_roll>>

\* the rolls tried: both ends of the range and one in between
RollsOf(c, stat) ==
    LET r == roll_range(c, stat)
    IN  {n \in r[1] .. r[2] : n = r[1] \/ n = r[2] \/ n = 7}

\* "bonus = max(bonus_roll, int((roll + att_value + rebirths) * bonus_multi))"
\* with bonus_multi in tenths
ability_bonus(roll, value, rebirths, bonus_roll, bonus_multi) ==
    Max(bonus_roll, IntDiv((roll + value + rebirths) * bonus_multi, 10))

\* what the numbers drawn for one participant are: bonus_roll of
\* randint(5, 15), bonus_multi of [0.2, 0.3, 0.4, 0.5] in tenths, the base
\* bonus of randint(5, 10), the critical bonus of randint(5, 20) and the base
\* bonus of an active ability of randint(15, 50)
DRAWS == {[bonus_roll |-> 5, bonus_multi |-> 2, base_bonus |-> 5,
           crit_bonus |-> 20, ability_base |-> 15],
          [bonus_roll |-> 15, bonus_multi |-> 5, base_bonus |-> 10,
           crit_bonus |-> 5, ability_base |-> 50]}

\* the defence of the monster in halves: max(pdef, 0.5) and max(mdef, 0.5)
DEFENCES == {1, 3}

\* one pass of "for user in fight_list" of handle_fight: what is added to
\* attack, and whether the user goes to fumblelist and to critlist
fight_roll(c, roll, pdef, d) ==
    LET att_value == c.total
        max_roll == roll_range(c, c.total)[2]
        rebirths == IF c.name = "Berserker" THEN c.rebirths * 3 ELSE 0
    IN  IF roll = 1
        THEN IF c.name = "Berserker" /\ c.ability
             THEN LET bonus == ability_bonus(roll, att_value, rebirths,
                                             d.bonus_roll, d.bonus_multi)
                  IN  [added |-> IntDiv(2 * (roll - bonus + att_value), pdef),
                       fumbled |-> FALSE, crit |-> FALSE]
             ELSE [added |-> 0, fumbled |-> TRUE, crit |-> FALSE]
        ELSE IF roll = max_roll \/ c.name = "Berserker"
        THEN LET crit_bonus == IF roll = max_roll THEN d.crit_bonus + 2 * rebirths
                               ELSE 0
                 base_bonus == IF c.ability THEN d.ability_base + 5 * rebirths
                               ELSE d.base_bonus + rebirths
             IN  [added |-> IntDiv(2 * (roll + base_bonus + crit_bonus + att_value),
                                   pdef),
                  fumbled |-> FALSE, crit |-> roll = max_roll]
        ELSE [added |-> IntDiv(2 * (roll + att_value), pdef) + rebirths,
              fumbled |-> FALSE, crit |-> FALSE]

\* one pass of "for user in magic_list" of handle_fight: the user goes to
\* fumblelist on a roll of 1 before the class is looked at
magic_roll(c, roll, mdef, d) ==
    LET int_value == c.total
        max_roll == roll_range(c, c.total)[2]
        rebirths == IF c.name = "Wizard" THEN c.rebirths * 3 ELSE 0
    IN  IF roll = 1
        THEN IF c.name = "Wizard" /\ c.ability
             THEN LET bonus == ability_bonus(roll, int_value, rebirths,
                                             d.bonus_roll, d.bonus_multi)
                  IN  [added |-> IntDiv(2 * (roll - bonus + int_value), mdef),
                       fumbled |-> TRUE, crit |-> FALSE]
             ELSE [added |-> 0, fumbled |-> TRUE, crit |-> FALSE]
        ELSE IF roll = max_roll \/ c.name = "Wizard"
        THEN LET crit_bonus == IF roll = max_roll THEN d.crit_bonus + 2 * rebirths
                               ELSE 0
                 base_bonus == IF c.ability THEN d.ability_base + 5 * rebirths
                               ELSE d.base_bonus + rebirths
             IN  [added |-> IntDiv(2 * (roll + base_bonus + crit_bonus + int_value),
                                   mdef),
                  fumbled |-> FALSE, crit |-> roll = max_roll]
        ELSE [added |-> IntDiv(2 * (roll + int_value), mdef) + (c.rebirths \div 5),
              fumbled |-> FALSE, crit |-> FALSE]

\* "max(c.rebirths * 0.01, 1.5)" in hundredths
pray_factor(c) == Max(c.rebirths, 150)

\* the three totals are kept in hundredths here: the backfire of a Cleric is
\* "(5 * len(list)) - ((5 * len(list)) * max(c.rebirths * 0.01, 1.5))", not
\* a whole number, and only for a roster with somebody on it
backfire(c, n) == IF n > 0 THEN 5 * n * 100 - 5 * n * pray_factor(c) ELSE 0

\* "int((mod * len(list)) + ((mod * len(list)) * max(c.rebirths * 0.01, 1.5)))"
blessing(c, mod, n) ==
    IF n > 0 THEN 100 * IntDiv(mod * n * 100 + mod * n * pray_factor(c), 100) ELSE 0

\* "10 * (len(list) + c.rebirths // 15)" of a participant who is no Cleric
buff(c, n) == IF n > 0 THEN 100 * 10 * (n + (c.rebirths \div 15)) ELSE 0

\* one pass of "for user in pray_list" of handle_pray over the totals
\* t = <<attack, diplomacy, magic>> with the roster sizes n = <<fight, talk,
\* magic>>: the totals after it and whether the user goes to fumblelist
pray_roll(c, roll, n, t) ==
    IF n[1] + n[2] + n[3] = 0
    THEN [fumbled |-> FALSE, totals |-> t]
    ELSE IF c.name = "Cleric"
    THEN IF roll = 1
         THEN [fumbled |-> TRUE,
               totals |-> <<t[1] - backfire(c, n[1]), t[2] - backfire(c, n[2]),
                            t[3] - backfire(c, n[3])>>]
         ELSE LET mod == IF ~c.ability THEN roll \div 3 ELSE roll
              IN  [fumbled |-> FALSE,
                   totals |-> <<t[1] + blessing(c, mod, n[1]),
                                t[2] + blessing(c, mod, n[2]),
                                t[3] + blessing(c, mod, n[3])>>]
    ELSE IF roll = 5
    THEN [fumbled |-> FALSE,
          totals |-> <<t[1] + buff(c, n[1]), t[2] + buff(c, n[2]),
                       t[3] + buff(c, n[3])>>]
    ELSE [fumbled |-> TRUE, totals |-> t]

\* the rolls of a prayer: a Cleric rolls as the others do on the rosters,
\* anybody else random.randint(1, 10)
PRAY_ROLLS(c) == IF c.name = "Cleric" THEN RollsOf(c, c.total) ELSE {1, 5, 10}

CLASSES == {"Berserker", "Wizard", "Cleric"}

\* the sheets of the participants; total is the stat the roster adds
ROLLERS == {[dex |-> 0, name |-> nm, rebirths |-> r, luck |-> l, total |-> st,
             ability |-> ab] :
               nm \in CLASSES, ab \in BOOLEAN, r \in {0, 20}, l \in {0, 20},
               st \in {0, 4}}

\* roster sizes and the totals before the prayer, in hundredths
ROSTER_SIZES == {<<0, 0, 0>>, <<1, 0, 2>>}
TOTALS == {<<0, 0, 0>>, <<1000, 500, 0>>}

handle_fight_fight(c, roll, pdef, d) ==
    Called("handle_fight",
           [c |-> c, roll |-> roll, d |-> d, roster |-> "fight", def |-> pdef],
           fight_roll(c, roll, pdef, d))

handle_fight_magic(c, roll, mdef, d) ==
    Called("handle_fight",
           [c |-> c, roll |-> roll, d |-> d, roster |-> "magic", def |-> mdef],
           magic_roll(c, roll, mdef, d))

handle_pray(c, roll, n, t) ==
    Called("handle_pray", [c |-> c, t |-> t, roll |-> roll, n |-> n],
           pray_roll(c, roll, n, t))

InitRoll == Init

NextRoll ==
    \/ \E c \in ROLLERS, pdef \in DEFENCES, d \in DRAWS :
         \E roll \in RollsOf(c, c.total) : handle_fight_fight(c, roll, pdef, d)
    \/ \E c \in ROLLERS, mdef \in DEFENCES, d \in DRAWS :
         \E roll \in RollsOf(c, c.total) : handle_fight_magic(c, roll, mdef, d)
    \/ \E c \in ROLLERS, n \in ROSTER_SIZES, t \in TOTALS :
         \E roll \in PRAY_ROLLS(c) : handle_pray(c, roll, n, t)

SpecRoll == InitRoll /\ [][NextRoll]_vars

\* ------------------------------------- reactions while _result is running --
\* The countdown of an encounter with a normal monster is over and _result is
\* entered; the message of the session is still up, the session is still
\* registered, and on_reaction_add goes on handling the reactions on it.
InitLate ==
    /\ InitResult
    /\ heap[1].challenge = "normal"
    /\ monster_table["normal"].pdef > DefUnit

\* the five rosters of a session object
RostersOf(s) == [i \in DOMAIN ROSTERS |-> s[ROSTERS[i]]]

NextLate ==
    \/ \E t \in AdvTasks : result_tally(t)
    \/ \E t \in AdvTasks, dex \in {0}, chest \in {FALSE} : result_payout(t, dex, chest)
    \/ \E t \in AdvTasks : adventure_nobody(t)
    \/ \E t \in AdvTasks : adventure_finish(t)
    \/ \E h \in Handlers, g \in Guilds, u \in Users, a \in Range(ROSTERS) :
           serial_reaction(h, g, u, a)
    \/ \E h \in Handlers : handle_funds(h)
    \/ \E h \in Handlers : handle_unreact(h)
    \/ \E h \in Handlers : handle_restrict(h)
    \/ \E h \in Handlers : handler_return(h)

SpecLate == InitLate /\ [][NextLate]_vars

\* ------------------------------------------- the rewards of two encounters --
\* The countdown is over in every group at the same time: task g resolves
\* the session of group g, whose fight roster is any set of the users (a
\* user is a member of every group).
InitEnds ==
    \E fighters \in [Guilds -> SUBSET Users] :
        /\ sessions = [g \in Guilds |-> g]
        /\ heap = [g \in Guilds |->
                      [GameSession("normal", "normal") EXCEPT
                           !.message_id = g, !.fight = SetToSeq(fighters[g])]]
        /\ last_raids = << >>
        /\ monster_table = LoadedMonsters
        /\ cooldown = [g \in Guilds |-> SinceCap]
        /\ on_cooldown = [g \in Guilds |-> FALSE]
        /\ apc = [t \in AdvTasks |-> IF t \in Guilds THEN "tally" ELSE "idle"]
        /\ actx = [t \in AdvTasks |->
                      IF t \in Guilds THEN [NoCtx EXCEPT !.guild = t, !.sid = t]
                      ELSE NoCtx]
        /\ gc_alive = TRUE
        /\ swept = FALSE

InitCredit == InitEnds /\ InitReact /\ InitBank /\ InitLocks /\ InitResolver /\ InitCall

\* _adventure after _simple has returned: "if not reward and not
\* participants" does not hold, "reward_copy = reward.copy()", and the loop
\* calls _add_rewards for the first entry, which awaits
credit_begin(t) ==
    /\ apc[t] = "rewards"
    /\ Live(actx[t].guild)
    /\ \/ heap[sessions[actx[t].guild]].participants # {}
       \/ \E u \in Users : rewards[u] # NoReward
    /\ actx' = [actx EXCEPT ![t].copy = rewards]
    /\ Goto(t, "credit")
    /\ UNCHANGED <<sessions, last_raids, cooldown, on_cooldown, gc_alive, swept, advFrame>>
    /\ Heap(heap)

\* the entries of reward_copy the loop has still to go through
Uncredited(t) == {u \in Users : actx[t].copy[u] # NoReward}

\* "for (userid, rewards) in reward_copy.items(): if rewards: ... await
\* self._add_rewards(ctx, user, rewards["xp"], rewards["cp"],
\* rewards["special"]); self._rewards[userid] = {}": one pass of the loop
credit_user(t) ==
    /\ apc[t] = "credit"
    /\ Uncredited(t) # {}
    /\ LET u == CHOOSE x \in Uncredited(t) : \A y \in Uncredited(t) : x <= y
           r == actx[t].copy[u]
       IN  /\ store' = [store EXCEPT ![u].exp = @ + r.xp, ![u].treasure = @ + r.special]
           /\ bal' = [bal EXCEPT ![u] = @ + r.cp]
           /\ rewards' = [rewards EXCEPT ![u] = NoReward]
           /\ actx' = [actx EXCEPT ![t].copy[u] = NoReward]
    /\ UNCHANGED <<sessions, apc, last_raids, cooldown, on_cooldown, gc_alive, swept,
                   monster_table, quietFrame>>
    /\ Heap(heap)

\* the loop is through; the abilities of the participants are reset and
\* "while ctx.guild.id in self._sessions: del self._sessions[ctx.guild.id]"
credit_end(t) ==
    /\ apc[t] = "credit"
    /\ Uncredited(t) = {}
    /\ sessions' = Delete(sessions, actx[t].guild)
    /\ Finish(t, "finished")
    /\ UNCHANGED <<last_raids, cooldown, on_cooldown, gc_alive, swept, advFrame>>
    /\ Heap(heap)

NextCredit ==
    \/ \E t \in AdvTasks : result_tally(t)
    \/ \E t \in AdvTasks, dex \in {0}, chest \in BOOLEAN : result_payout(t, dex, chest)
    \/ \E t \in AdvTasks : adventure_nobody(t)
    \/ \E t \in AdvTasks : credit_begin(t)
    \/ \E t \in AdvTasks : credit_user(t)
    \/ \E t \in AdvTasks : credit_end(t)

SpecCredit == InitCredit /\ [][NextCredit]_vars

\* ------------------------------------------- the reset of a group's lock --
\* the command "adventureset locks adventure": "while ctx.guild.id in
\* self._sessions: del self._sessions[ctx.guild.id]"
adventureset_locks_adventure(g) ==
    /\ Live(g)
    /\ sessions' = Delete(sessions, g)
    /\ UNCHANGED <<last_raids, cooldown, on_cooldown, apc, actx, gc_alive, swept, advFrame>>
    /\ Heap(heap)

InitReset == Init

\* the adventure command with an administrator who resets the lock
NextReset ==
    \/ AdvStep
    \/ \E g \in Starters : adventureset_locks_adventure(g)

SpecReset == InitReset /\ [][NextReset]_vars

\* ------------------------------------------------ the chests of a reward --
\* "special" is either False (the empty tuple here) or a list of five
\* counters: normal, rare, epic, legendary and set chests
NoChests == <<0, 0, 0, 0, 0>>
IsFalse(special) == special = <<>>

AddChests(a, b) == [i \in 1..5 |-> a[i] + b[i]]

\* "if c.rebirths > 1: roll = random.randint(1, 100) ...": what the bonus
\* rolls of _add_rewards add to the counters
chest_bonus(rebirths, roll) ==
    IF rebirths > 1
    THEN <<IF roll < 50 THEN 1 ELSE 0,
           IF rebirths > 5 /\ roll < 30 THEN 1 ELSE 0,
           IF rebirths > 10 /\ 10 > roll THEN 1 ELSE 0,
           IF rebirths > 15 /\ roll < 5 THEN 1 ELSE 0,
           0>>
    ELSE NoChests

\* _add_rewards from "if c.rebirths > 1" to "c.treasure = [sum(x) for x in
\* zip(c.treasure, special)]" for the list object "shared" it is handed
\* (the empty tuple when special is False): "special[0] += 1" writes into
\* that object; a new list is made only when special is False.  The result
\* is what is added to c.treasure.
add_rewards_special(shared, rebirths, roll) ==
    IF IsFalse(shared) THEN chest_bonus(rebirths, roll)
    ELSE AddChests(shared, chest_bonus(rebirths, roll))

\* the list object after the call: written in place, unless it was False
special_after(shared, rebirths, roll) ==
    IF IsFalse(shared) THEN shared
    ELSE AddChests(shared, chest_bonus(rebirths, roll))

\* _reward stores the one object "special" in the entry of every user,
\* 'self._rewards[user.id]["special"] = special', and the loop of _adventure
\* hands rewards["special"] to _add_rewards user by user: what each of the
\* users from the i-th on has added to c.treasure
RECURSIVE RewardLoop(_, _, _, _)
RewardLoop(shared, cs, rolls, i) ==
    IF i > Len(cs) THEN <<>>
    ELSE <<add_rewards_special(shared, cs[i], rolls[i])>>
         \o RewardLoop(special_after(shared, cs[i], rolls[i]), cs, rolls, i + 1)

\* the chest vectors _result draws for an encounter: none, that of a hard
\* monster and one of a boss
ENCOUNTER_CHESTS == {<<>>, <<1, 0, 0, 0, 0>>, <<0, 0, 1, 2, 0>>}
\* c.rebirths of the rewarded users and their rolls of randint(1, 100)
MaxRewarded == 2
CHEST_REBIRTHS == {0, 2, 20}
CHEST_ROLLS == {1, 40, 100}

reward_loop(treasure, cs, rolls) ==
    Called("_add_rewards", [treasure |-> treasure, cs |-> cs, rolls |-> rolls],
           RewardLoop(treasure, cs, rolls, 1))

InitChest == Init

NextChest ==
    \E treasure \in ENCOUNTER_CHESTS, n \in 1..MaxRewarded :
        \E cs \in [1..n -> CHEST_REBIRTHS], rolls \in [1..n -> CHEST_ROLLS] :
            reward_loop(treasure, cs, rolls)

SpecChest == InitChest /\ [][NextChest]_vars

\* ------------------------------------- a command's prompt and the rosters --
\* A session is open and its message is up for reactions (handled one after
\* another) while the users run the skill reset, which tests in_adventure
\* when it is invoked and then waits up to 60 seconds for an answer.
InitPrompt == InitVeto

NextPrompt ==
    \/ \E h \in Handlers, g \in Guilds, u \in Users, a \in Pressed :
           serial_reaction(h, g, u, a)
    \/ \E h \in Handlers : handle_funds(h)
    \/ \E h \in Handlers : handle_unreact(h)
    \/ \E h \in Handlers : handle_restrict(h)
    \/ \E h \in Handlers : handler_return(h)
    \/ \E t \in Ops, u \in Users : skill(t, u)
    \/ \E t \in Ops : skill_acquire(t)
    \/ \E t \in Ops, outcome \in {"error", "recent", "ok"} : skill_load(t, outcome)
    \/ \E t \in Ops, answer \in {"timeout", "no", "yes"} : skill_answer(t, answer)
    \/ \E t \in Ops : skill_persist(t)
    \/ \E t \in Ops : skill_withdraw(t)

SpecPrompt == InitPrompt /\ [][NextPrompt]_vars

\* ================================================================ claims ==
Started == {"send", "wait", "tally", "payout", "rewards"}
Registered == {sessions[g] : g \in DOMAIN sessions}

C5_SessionDeleted ==
    \A t \in AdvTasks :
        (apc[t] = "done" /\ actx[t].sid \in Registered)
        => heap[actx[t].sid].age <= TTL + 1

\* the number of times the resolver recorded an outcome for session sid
Resolutions(sid) ==
    LET Hits(g) == {i \in DOMAIN last_raids[g] : last_raids[g][i].session = sid}
        RECURSIVE Sum(_)
        Sum(G) == IF G = {} THEN 0
                  ELSE LET g == CHOOSE x \in G : TRUE
                       IN  Cardinality(Hits(g)) + Sum(G \ {g})
    IN  Sum(DOMAIN last_raids)

\* C6: the effects of the Combat Resolver are applied to a session once and
\* never twice.
C6_ResolvedOnce == \A sid \in DOMAIN heap : Resolutions(sid) <= 1

\* C7: no two encounters of one group are live at the same time: of the start
\* requests of a group at most one has created a session and not yet ended.
C7_OneEncounterPerGroup ==
    \A t1 \in AdvTasks, t2 \in AdvTasks :
        (t1 # t2 /\ apc[t1] \in Started /\ apc[t2] \in Started)
        => actx[t1].guild # actx[t2].guild

\* C8: the sweep removes every session older than the TTL: with a pass every
\* five seconds, no registered session is more than a minute past the TTL.
C8_SweepRemovesExpired ==
    \A g \in DOMAIN sessions : heap[sessions[g]].age <= TTL + 1

\* C2: when the roster toggles of a session are handled one after another,
\* then after each handler has completed every user is in at most one of the
\* five rosters and at most once in it, and a toggle made with restrict mode
\* off by a user who can afford the entry cost leaves the user in the roster
\* chosen.
C2_SerialToggle ==
    [][\A h \in Handlers :
          (hpc[h] # "done" /\ hpc'[h] = "done")
          => LET c == hctx'[h]
                 s == heap'[c.sid]
             IN  /\ \A u \in Users : Occurrences(s, u) <= 1
                 /\ (c.has_fund /\ ~c.restricted) => Count(s[c.action], c.user) = 1]_vars

\* a toggle has completed that took a user who can pay out of a roster and,
\* restrict mode being off, put the user into the roster chosen
C2_Witness ==
    \E h \in Handlers :
        /\ hpc[h] = "done"
        /\ hctx[h].has_fund /\ ~hctx[h].restricted /\ hctx[h].evicted
        /\ Count(heap[hctx[h].sid][hctx[h].action], hctx[h].user) = 1

\* C9: when two toggles of one user are handled concurrently, then once no
\* handler is at work for the user, the user is in at most one roster and at
\* most once in it.
C9_InterleavedDisjoint ==
    \A u \in Users :
        (\A h \in Handlers : hctx[h].user = u => hpc[h] \in {"idle", "done"})
        => \A sid \in DOMAIN heap : Occurrences(heap[sid], u) <= 1

\* task t has loaded the sheet of user u, has changed its copy and is about
\* to persist it
Pending(t, u) ==
    \/ lpc[t] \in {"sell_persist", "rewards_persist", "counters_persist", "reset_persist"}
       /\ lctx[t].user = u
    \/ lpc[t] \in {"trade_lock_buyer", "trade_persist_buyer", "trade_persist_author"}
       /\ lctx[t].user = u
    \/ lpc[t] \in {"trade_lock_buyer", "trade_persist_buyer"}
       /\ lctx[t].buyer = u

\* C3: every read-modify-write of a participant's sheet is done holding the
\* participant's lock: a task that has loaded a sheet and is about to persist
\* it holds the lock of the sheet's owner, and no two tasks are between
\* loading and persisting the same sheet.
C3_RmwUnderLock ==
    \A t \in Ops, u \in Users :
        Pending(t, u)
        => /\ locks[u] = t
           /\ \A t2 \in Ops : Pending(t2, u) => t2 = t

\* C4: every lock an operation acquires is released on every exit path: an
\* operation that has ended holds no lock.
C4_LocksReleased ==
    \A t \in Ops : lpc[t] = "done" => \A u \in Users : locks[u] # t

\* C10: concurrent trades cannot deadlock: no two trades hold one party's
\* lock each and wait for the lock the other holds.
C10_NoTradeDeadlock ==
    \A t1 \in Ops, t2 \in Ops :
        ~ /\ t1 # t2
          /\ lpc[t1] = "trade_lock_buyer" /\ lpc[t2] = "trade_lock_buyer"
          /\ locks[lctx[t1].buyer] = t2
          /\ locks[lctx[t2].buyer] = t1

\* C13: the resolver computes slain = (attack + magic >= hp), persuaded =
\* (diplomacy >= dipl) and success = (slain or persuaded) and not failed; in
\* particular totals with attack + magic >= hp, diplomacy < dipl and failed
\* false give success, slain and not persuaded.  (The totals are kept in
\* halves, the thresholds in whole points.)
C13_ResolverVerdicts ==
    \A t \in AdvTasks :
        apc[t] \in {"payout", "rewards"}
        => LET r == actx[t].res IN
           /\ r.slain = (r.attack + r.magic >= 2 * r.hp)
           /\ r.persuaded = (r.diplomacy >= 2 * r.dipl)
           /\ r.success = ((r.slain \/ r.persuaded) /\ ~r.failed)
           /\ (r.attack + r.magic >= 2 * r.hp /\ r.diplomacy < 2 * r.dipl /\ ~r.failed)
              => (r.success /\ r.slain /\ ~r.persuaded)

\* the resolver has given its verdicts for an attack that reaches the
\* threshold with the help of half a point of magic, and a diplomacy short
\* of its threshold: slain, not persuaded, success
C13_Witness ==
    \E t \in AdvTasks :
        LET r == actx[t].res IN
        /\ apc[t] = "payout"
        /\ r.magic = 1 /\ r.attack + r.magic = 2 * r.hp
        /\ r.diplomacy < 2 * r.dipl
        /\ ~r.failed /\ r.success /\ r.slain /\ ~r.persuaded

\* C14: when the gate of the miniboss has failed, the encounter is a loss
\* whatever the totals: once the resolver is through, nothing is set aside
\* as a reward for any user (no xp, no currency, no chest), no balance is
\* above what it was and no sheet has gained experience.
C14_GateFailedNoGain ==
    \A t \in AdvTasks :
        (apc[t] = "rewards" /\ actx[t].res.failed)
        => /\ ~actx[t].res.success
           /\ \A u \in Users : /\ rewards[u] = NoReward
                                /\ bal[u] <= Balance0(u)
                                /\ store[u].exp = 0

\* the gate failed although the totals slew the monster, and a participant
\* has paid the loss
C14_Witness ==
    \E t \in AdvTasks, u \in Users :
        /\ apc[t] = "rewards"
        /\ actx[t].res.failed /\ actx[t].res.slain
        /\ u \in heap[actx[t].sid].participants
        /\ bal[u] < Balance0(u)

\* the users in one of the five rosters of session s, or fumbled
Everyone(s, r) ==
    Range(s.fight) \cup Range(s.magic) \cup Range(s.talk) \cup Range(s.pray)
    \cup Range(s.run) \cup r.fumblelist

\* C15: when an encounter ends without success, every participant, those who
\* fumbled and those in the run roster included, has had the loss
\* min(balance * 0.2 / dexterity factor, balance, 1e9) withdrawn.
C15_EveryoneCharged ==
    \A t \in AdvTasks :
        (apc[t] = "rewards" /\ ~actx[t].res.success)
        => \E dex \in DEX :
              \A u \in Everyone(heap[actx[t].sid], actx[t].res) :
                  bal[u] = Charged(Balance0(u), dex)

\* C19: the monster table is read-only after it is loaded: every template
\* has the stats it was loaded with.
C19_TableReadOnly == monster_table = LoadedMonsters

\* task t is at an acquisition of the lock of user u ("async with
\* self.get_lock(...)" or "await lock.acquire()")
Acquiring(t, u) ==
    \/ lpc[t] \in {"trade_acquire", "nega_acquire", "reset_acquire"} /\ lctx[t].user = u
    \/ lpc[t] = "trade_lock_buyer" /\ lctx[t].buyer = u

\* C11: no command or encounter step suspends on acquiring a participant's
\* lock that another operation holds: a task at an acquisition finds the lock
\* free.
C11_NoSuspension ==
    \A t \in Ops, u \in Users : Acquiring(t, u) => ~Locked(u)

\* task t has released the lock of user u that it held and goes on
Released(t, u) == lpc[t] \in {"sell_persist", "nega_leave"} /\ lctx[t].user = u

\* C12: no operation writes a participant's sheet after it has released the
\* participant's lock: a task that has released the lock has no write of the
\* sheet ahead of it.
C12_PersistBeforeRelease ==
    \A t \in Ops, u \in Users : Released(t, u) => ~Pending(t, u)

\* task t runs a paid operation whose price, as the operation worked it out,
\* is more than its user has in the bank
Unaffordable(t) ==
    /\ lctx[t].op \in {"skill", "buyloot"}
    /\ lpc[t] # "done"
    /\ lctx[t].cost > bal[lctx[t].user]

\* C18: an operation that costs currency and is attempted by a user whose
\* balance is short of the cost has no side effects: no step of the operation
\* changes the user's balance or the user's persisted sheet.
C18_RejectedNoEffect ==
    [][\A t \in Ops :
          (Unaffordable(t) /\ lpc'[t] # lpc[t])
          => /\ store'[lctx[t].user] = store[lctx[t].user]
             /\ bal'[lctx[t].user] = bal[lctx[t].user]]_vars

\* C16: a roster toggle by a user who cannot afford the entry cost is vetoed:
\* when its handler has completed, the user is in none of the five rosters of
\* the session.
C16_BrokeVetoed ==
    [][\A h \in Handlers :
          (hpc[h] # "done" /\ hpc'[h] = "done" /\ ~hctx'[h].has_fund)
          => Occurrences(heap'[hctx'[h].sid], hctx'[h].user) = 0]_vars

\* the groups in whose session user u has a roster slot
SlotsIn(u) == {g \in DOMAIN sessions : Occurrences(heap[sessions[g]], u) > 0}

\* handler h leaves the await of config.restrict()
Decides(h) == hpc[h] = "restrict" /\ hpc'[h] # "restrict"

MostRecent(h, n) ==
    /\ Len(h) = Min(n, num_raids)
    /\ \A i \in DOMAIN h : h[i].amount = n - Len(h) + i

\* the groups whose history a step has changed
Touched ==
    {g \in DOMAIN last_raids' : g \notin DOMAIN last_raids \/ last_raids'[g] # last_raids[g]}

\* C20: after every call of record each group's history holds at most 20
\* entries, which are the most recent min(n, 20) of the n records of the
\* group in the order of their arrival, and the call has changed the history
\* of no group but its own.
C20_HistoryWindow ==
    [][/\ \A g \in DOMAIN last_raids' :
              /\ Len(last_raids'[g]) <= num_raids
              /\ MostRecent(last_raids'[g], Recorded(last_raids, g) + (IF g \in Touched THEN 1 ELSE 0))
       /\ Cardinality(Touched) <= 1]_vars

\* a group has recorded more than 20 results, so that the oldest have been
\* evicted, while another group has a history of its own
C20_Witness ==
    \E g, g2 \in DOMAIN last_raids :
        /\ g # g2
        /\ Len(last_raids[g]) = num_raids
        /\ last_raids[g][1].amount = MaxRecords - num_raids + 1
        /\ Len(last_raids[g2]) \in 1..(num_raids - 1)

\* the history of group g is empty or there is none
NoHistory(g) == g \notin DOMAIN last_raids \/ last_raids[g] = <<>>

\* C21: for a group whose history is empty, stat_range returns stat_type hp,
\* min_stat 0, max_stat 0 and win_percent 0.5.
C21_EmptyHistoryRange ==
    \A g \in Guilds :
        NoHistory(g)
        => LET r == get_stat_range(last_raids, g)
           IN  /\ r.stat_type = "hp"
               /\ r.min_stat = Whole(0) /\ r.max_stat = Whole(0)
               /\ "win_percent" \in DOMAIN r
               /\ Leq(r.win_percent, Frac(1, 2)) /\ Leq(Frac(1, 2), r.win_percent)

\* the history of group g is the single record (talk, 100, party of 1, won)
SoloTalk(g) ==
    /\ g \in DOMAIN last_raids
    /\ last_raids[g] = <<[session |-> 0, main_action |-> "talk", amount |-> 100,
                          num_ppl |-> 1, success |-> TRUE]>>

Same(x, y) == Leq(x, y) /\ Leq(y, x)

\* what stat_range returns for the single record but for the stat_type:
\* min_stat 93.75 (three quarters of the average 125), max_stat 250 and
\* win_percent 1
SoloTalkBand(r) ==
    /\ Same(r.min_stat, Frac(9375, 100))
    /\ Same(r.max_stat, Whole(250))
    /\ Same(r.win_percent, Whole(1))

BandStat(stats, g) ==
    IF Tallied(last_raids[g], TRUE) < Tallied(last_raids[g], FALSE)
    THEN stats.dipl ELSE stats.hp

\* C23: when a band is active, a monster is a candidate only if its hp (for a
\* history dominated by attacks) or its dipl (for one dominated by talks) lies
\* in [min_stat x 0.75, max_stat x 1.2].
C23_CandidatesInBand ==
    \A g \in DOMAIN last_raids, best \in BEST :
        LET r == get_stat_range(last_raids, g)
        IN  (last_raids[g] # <<>> /\ Banded(r))
            => \A m \in possible_monsters(monster_table, r, best) :
                   /\ Leq(Times(r.min_stat, 3, 4), Whole(BandStat(monster_table[m], g)))
                   /\ Leq(Whole(BandStat(monster_table[m], g)), Times(r.max_stat, 6, 5))

\* C24: a rebirth grants the treasure payout: with r the rebirth count after
\* the increment, the chest counters increase by r normal (r > 0), r \div 5
\* rare (r >= 5), r \div 10 epic (r >= 10) and r \div 15 legendary (r >= 15);
\* from 12 to 13 that is +13, +2, +1 and +0.
C24_RebirthPayout ==
    call.fn = "rebirth"
    => LET r      == call.val.rebirths
           before == call.arg.treasure
           after  == call.val.treasure
       IN  /\ after[1] = before[1] + (IF r > 0 THEN r ELSE 0)
           /\ after[2] = before[2] + (IF r >= 5 THEN r \div 5 ELSE 0)
           /\ after[3] = before[3] + (IF r >= 10 THEN r \div 10 ELSE 0)
           /\ after[4] = before[4] + (IF r >= 15 THEN r \div 15 ELSE 0)
           /\ (r = 13 => /\ after[1] - before[1] = 13 /\ after[2] - before[2] = 2
                         /\ after[3] - before[3] = 1 /\ after[4] - before[4] = 0)

\* C25: on rebirth each legendary or event item has its degrade counter
\* decremented by one and is destroyed only when the counter drops below 0;
\* an item whose counter is -1 is neither decremented nor destroyed.
C25_DegradeOnRebirth ==
    call.fn = "rebirth"
    => \A n \in DOMAIN call.arg.backpack :
           LET i == call.arg.backpack[n]
               o == call.val.fate[n]
           IN  i.rarity \in {"legendary", "event"}
               => IF i.degrade = -1 THEN o = i
                  ELSE IF i.degrade - 1 < 0 THEN o = Gone
                  ELSE o = [i EXCEPT !.degrade = @ - 1]

\* C26 as stated: the max level starts at 5 for 0 rebirths or 20 for at least
\* one, adds for each rebirth walked down from the total 10 while 20 or more
\* remain, else 5 while 10 or more remain, else 10, and is capped at 10,000.
C26_MaxLevelAsStated ==
    call.fn = "get_max_level"
    => LET n == Max(call.arg, 0)
       IN  call.val = Min(LEVEL_CAP,
                          IF n = 0 THEN 5
                          ELSE 20 + 10 * Max(n - 19, 0)
                                  + 5 * Max(Min(n, 19) - 9, 0)
                                  + 10 * Min(n, 9))

\* C26 amended: the max level starts at 5 for 0 rebirths or 20 for at least
\* one, adds for each rebirth walked down from the total 10 while 10 or more
\* remain and 5 while fewer than 10 remain, and is capped at 10,000.
C26_MaxLevel ==
    call.fn = "get_max_level"
    => LET n == Max(call.arg, 0)
       IN  call.val = Min(LEVEL_CAP,
                          IF n = 0 THEN 5
                          ELSE 20 + 10 * Max(n - 9, 0) + 5 * Min(n, 9))

\* 25 rebirths: six steps of 10, ten steps of 10, nine steps of 5
C26_Witness == call.fn = "get_max_level" /\ call.arg = 25 /\ call.val = 225

\* C27 as stated: after experience is applied the level is
\* floor(max(experience, 0) ^ (1 / 3.5)) capped at the max level, and for
\* experience 1000 the formula gives level 5.
C27_LevelAsStated ==
    call.fn = "_add_rewards"
    => LET e == Max(call.val.exp, 0)
           maxlevel == get_max_level(call.val.rebirths)
       IN  /\ call.val.lvl = Min(root35_floor(e), maxlevel)
           /\ (e = 1000 => root35_floor(e) = 5)

\* C27 amended: after experience is applied the level is the largest n with
\* n ^ 3.5 < experience, capped at the max level, unless the level held
\* before is already that high, which is then kept; for experience 1000
\* the formula gives 7.
C27_Level ==
    call.fn = "_add_rewards"
    => LET e        == Max(call.val.exp, 0)
           maxlevel == get_max_level(call.val.rebirths)
           before   == Min(call.arg.c.lvl, maxlevel)
           below    == CHOOSE n \in 0..MaxRoot :
                           Pow7(n) < e * e /\ e * e <= Pow7(n + 1)
           formula  == Min(below, maxlevel)
       IN  /\ call.val.exp = call.arg.c.exp + call.arg.exp
           /\ call.val.lvl = IF e < 2 THEN before ELSE Max(before, formula)
           /\ (e = 1000 => below = 7)

\* experience of 1000 has lifted a reborn character from level 6 to level 7
C27_Witness ==
    /\ call.fn = "_add_rewards"
    /\ call.val.exp = 1000 /\ call.arg.c.lvl = 6 /\ call.val.lvl = 7

\* experience of exactly 4 ^ 3.5 has left a reborn character at level 3
C27_ShortOfFour ==
    /\ call.fn = "_add_rewards"
    /\ call.val.exp = 128 /\ call.val.rebirths = 1 /\ call.val.lvl = 3

C29_SetMultipliers ==
    call.fn = "Character"
    => /\ call.val.gear_set_bonus.statmult >= 75
       /\ call.val.gear_set_bonus.xpmult >= 0
       /\ call.val.gear_set_bonus.cpmult >= 0

StatBlock(i) == <<i.att, i.cha, i.int, i.dex, i.luck>>

\* C30: serializing any generated item and reconstructing it from the
\* serialized form yields an item with the same rarity, the same slot list
\* and the same stat block (attack, charisma, intelligence, dexterity, luck),
\* for every rarity the generator can produce.
C30_ItemRoundTrip ==
    call.fn = "Item.from_json"
    => /\ call.val.rarity = call.arg.item.rarity
       /\ call.val.slot = call.arg.item.slot
       /\ StatBlock(call.val) = StatBlock(call.arg.item)

\* the round trip of an item that is not a set item, or whose name is the
\* key of its entry in the table of set items, keeps rarity, slot list and
\* stat block
RoundTripWhenFound ==
    (/\ call.fn = "Item.from_json"
     /\ call.arg.item.rarity = "set" => call.arg.item.name \in SET_NAMES)
    => C30_ItemRoundTrip

PlainEpic ==
    /\ call.fn = "_sell"
    /\ call.arg.item.rarity = "epic" /\ max_main_stat(call.arg.item) = 5
    /\ call.arg.c.total_cha = 0 /\ call.arg.c.luck = 0 /\ call.arg.c.rebirths = 0

C32_BackfireLowers ==
    (call.fn = "handle_pray" /\ call.arg.c.name = "Cleric" /\ call.arg.roll = 1) =>
        \A i \in 1..3 :
            /\ call.val.totals[i] <= call.arg.t[i]
            /\ call.arg.n[i] > 0 => call.val.totals[i] < call.arg.t[i]

\* C33: in the Fight/Magic step a roll of 1 flags the participant as fumbled
\* and adds nothing, unless they are a Berserker on the fight roster or a
\* Wizard on the magic roster with the ability active: then they are not
\* flagged and add a strictly positive amount.
C33_FumbleOrAbility ==
    (call.fn = "handle_fight" /\ call.arg.roll = 1) =>
        IF /\ call.arg.c.ability
           /\ \/ call.arg.roster = "fight" /\ call.arg.c.name = "Berserker"
              \/ call.arg.roster = "magic" /\ call.arg.c.name = "Wizard"
        THEN ~call.val.fumbled /\ call.val.added > 0
        ELSE call.val.fumbled /\ call.val.added = 0

\* C34: once the countdown is over and _result has started, a reaction on
\* the session's message no longer changes the rosters: while an encounter
\* is being resolved, a step that is not the resolver's own leaves the five
\* rosters of its session as they are.
C34_ClosedRosters ==
    [][\A t \in AdvTasks :
          (apc[t] \in {"tally", "payout"} /\ apc'[t] = apc[t]) =>
              RostersOf(heap'[actx[t].sid]) = RostersOf(heap[actx[t].sid])]_vars

\* C35: every reward entry is credited exactly once and by the encounter
\* that computed it: when the loop of an invocation credits an entry to a
\* user, that entry is still the one pending in the registry (nobody has
\* credited it before) and the user took part in the invocation's session.
C35_CreditedOnce ==
    [][\A t \in AdvTasks, u \in Users :
          (apc[t] = "credit" /\ actx'[t].copy[u] # actx[t].copy[u]) =>
              /\ rewards[u] = actx[t].copy[u]
              /\ u \in heap[actx[t].sid].participants]_vars

\* C36: an invocation resolves and deletes only the session it created: the
\* session _result records an outcome for is the invocation's own, and a
\* step of an invocation takes no session but its own out of the registry.
C36_OwnSessionOnly ==
    [][\A t \in AdvTasks :
          apc'[t] # apc[t] =>
              /\ apc'[t] = "payout" => actx'[t].rsid = actx[t].sid
              /\ \A g \in DOMAIN sessions \ DOMAIN sessions' :
                     sessions[g] = actx[t].sid]_vars

\* C37: the success flag recorded into the history of the group equals the
\* outcome of the encounter: it is true exactly when (slain or persuaded)
\* and not failed.
C37_RecordedOutcome ==
    \A t \in AdvTasks :
        apc[t] = "payout" =>
            LET raids == last_raids[actx[t].guild]
                r     == actx[t].res
            IN  raids[Len(raids)].success = ((r.slain \/ r.persuaded) /\ ~r.failed)

\* C38: the chests credited to a rewarded participant are the chest vector
\* of the encounter plus that participant's own bonus rolls only, whoever
\* was credited before.
C38_OwnBonusOnly ==
    call.fn = "_add_rewards" =>
        \A i \in DOMAIN call.arg.cs :
            call.val[i] =
                AddChests(IF IsFalse(call.arg.treasure) THEN NoChests
                          ELSE call.arg.treasure,
                          chest_bonus(call.arg.cs[i], call.arg.rolls[i]))

\* C39: a participant's lock is released only by the task that holds it: a
\* step that frees the lock of a user is a step of the operation that
\* acquired it.
C39_ReleasedByHolder ==
    [][\A u \in Users :
          (Locked(u) /\ locks'[u] = 0) => lpc'[locks[u]] # lpc[locks[u]]]_vars

\* C40: a command guarded by the in-adventure check never commits a change
\* to the character of a user who holds a roster slot in a live session: a
\* step that changes the persisted sheet of a user finds the user in no
\* roster of a registered session.
C40_NoChangeInAdventure ==
    [][\A u \in Users : store'[u] # store[u] => u \notin all_users]_vars
====
